---- MODULE Spec2Model ----
(***************************************************************************)
(* Creator Node: the secondary-side sync executor (processSync) with the   *)
(* per-user redis lock, the export it consumes, the per-user failure       *)
(* counter and the database transaction it commits.                        *)
(***************************************************************************)
EXTENDS Integers, Sequences, FiniteSets, TLC

\* ---------------------------------------------------------------- bounds
MaxClock == 2
ExportWindow == 1
FileSaveMaxConcurrency == 1
SyncRequestMaxUserFailureCountBeforeSkip == 2
MaxSyncs == 2
MaxJobs == 2
MaxAttempts == 5
MaxSpID == 3
MaxNodes == 2
UnhealthyThreshold == 2

Wallets == {"w1", "w2", "w3"}
Procs == {"p1", "p2"}
NoOwner == "free"

\* wallet lists a sync job may carry
JobWallets == {<<"w1">>, <<"w2">>, <<"w1", "w2">>}

\* the wallets those jobs name
SyncedWallets == {"w1", "w2"}

\* wallet lists of jobs that share a user with a job led by another wallet
JobWalletsShared == {<<"w1">>, <<"w1", "w2">>, <<"w3", "w2">>}

Min(a, b) == IF a <= b THEN a ELSE b

SeqFromTo(lo, hi) == IF hi < lo THEN <<>> ELSE [n \in 1..(hi - lo + 1) |-> lo + n - 1]

Range(s) == {s[n] : n \in 1..Len(s)}

SubSeqFrom(s, from, count) == SubSeq(s, from, Min(Len(s), from + count - 1))

\* ------------------------------------------------ primary's log (by clock)
\* the mutation the primary committed at clock c
SourceTable(c) ==
    CASE c % 5 = 3 -> "Track"
      [] c % 5 = 4 -> "AudiusUser"
      [] OTHER -> "File"

FileType(c) ==
    CASE c % 5 = 0 -> "metadata"
      [] c % 5 = 1 -> "dir"
      [] OTHER -> "track"

TrackTypes == {"track", "copy320"}
NonTrackTypes == {"dir", "image", "metadata"}

PrimaryFile(c) ==
    [id |-> c, type |-> FileType(c), multihash |-> c, skipped |-> FALSE,
     uuid |-> "primary", fetch |-> "none"]

PrimaryRow(c) == [id |-> c, uuid |-> "primary"]

EmptyRows == [users |-> {}, recs |-> {}, files |-> {}, tracks |-> {}, ausers |-> {}]

IdleProc ==
    [pc |-> "idle", wallets |-> <<>>, force |-> FALSE, i |-> 0, localMax |-> -1,
     kmin |-> 0, resp |-> <<>>, u |-> 0, redisKey |-> "none", held |-> {},
     tx |-> EmptyRows, created |-> FALSE, j |-> 0, failed |-> {}, okIds |-> {},
     failIds |-> {}, err |-> "none", hist |-> {}, rolled |-> {}, committed |-> {},
     regress |-> {}, gap |-> {}]

\* the image a committed force resync left, recorded when recording is on
NoSnap ==
    [on |-> FALSE, wiped |-> FALSE, wallet |-> "none", pclock |-> -1, rows |-> EmptyRows,
     runs |-> 0]

VARIABLES primClock, lock, db, failCount, proc, syncs, snap

\* the async job queue: its jobs and the status records kept in redis
VARIABLES jobs, status

\* the node's bootstrap
VARIABLES boot

syncVars == <<primClock, lock, db, failCount, proc, syncs, snap>>

queueVars == <<jobs, status>>

bootVars == <<boot>>

\* calls of the functions of utils.js
VARIABLES transcode, net

\* Snapback's view of one user whose primary is this node
VARIABLES snapback

\* the file fetches of one user's sync, promise by promise
VARIABLES fetch

\* calls of getAllRegisteredCNodes, getIfAttemptedStateFix and
\* pollAccountBalance
VARIABLES cnodes, fix, poll

moreVars == <<fetch, cnodes, fix, poll>>

utilVars == <<transcode, net, snapback, moreVars>>

vars == <<primClock, lock, db, failCount, proc, syncs, snap, queueVars, bootVars, utilVars>>

\* ------------------------------------------------------ async job queue
EXPIRATION == 86400

PROCESS_NAMES == {"trackContentUpload", "transcodeAndSegment", "processTranscodeAndSegments"}

\* the task names a job can be added with
TaskNames == PROCESS_NAMES \cup {"unknownTask"}

QueueClasses == {"FileProcessingQueue", "AsyncProcessingQueue"}

RequestIDs == 1..MaxJobs

constructProcessKey(taskType, uuid) == <<taskType, ":::", uuid>>

ProcessKeys == {constructProcessKey(t, id) : t \in TaskNames, id \in RequestIDs}

NoStatus == [status |-> "none", resp |-> "none", ex |-> 0]

InitQueue ==
    /\ jobs = <<>>
    /\ status = [k \in ProcessKeys |-> NoStatus]

\* ------------------------------------------------------------- bootstrap
retryTimeoutMs == 5000

\* spID: the value in the node config; chain: the service-provider ID the L1
\* ServiceProviderFactory holds for the node's endpoint, 0 when it holds none
SnapbackRetryTimeoutMs == 10000

URSMRegisterRetryTimeoutMs == 10000

\* the wait for the URSM contract: 10 s in dev mode, 10 min otherwise
URSMDeployRetryTimeoutMs(devMode) == IF devMode THEN 10000 ELSE 600000

\* the services initServicesThatRequireServer sets up, null at construction
NoServices ==
    [snapbackSM |-> "null", syncQueue |-> FALSE, ursmClient |-> FALSE,
     ursmManager |-> FALSE, registered |-> FALSE, skippedCIDsRetryQueue |-> FALSE,
     initialized |-> FALSE]

InitBoot ==
    boot = [pc |-> "init", spID |-> 0, chain |-> 0, attempt |-> 0, waitedMs |-> 0,
            seen |-> {}, devMode |-> FALSE, ursmDeployed |-> FALSE,
            svc |-> NoServices]

InitSync ==
    /\ primClock = [w \in Wallets |-> 0]
    /\ lock = [w \in Wallets |-> NoOwner]
    /\ db = [w \in Wallets |-> EmptyRows]
    /\ failCount = [w \in Wallets |-> 0]
    /\ proc = [p \in Procs |-> IdleProc]
    /\ syncs = 0

\* no call of a function of utils.js is under way
NoCall == [pc |-> "none"]

\* the content nodes of the network, this node being the user's primary
Self == "self"

Peers == {Self, "a", "b", "c", "d"}

Slots == {1, 2}

NoProposal == "none"

InitSnapback ==
    snapback = [secondaries |-> <<"a", "b">>, up |-> Peers,
                unhealthy |-> <<0, 0>>, proposed |-> <<NoProposal, NoProposal>>]

InitMore ==
    /\ fetch = NoCall
    /\ cnodes = NoCall
    /\ fix = NoCall
    /\ poll = NoCall

InitUtil ==
    /\ transcode = NoCall
    /\ net = NoCall
    /\ InitSnapback
    /\ InitMore

Init ==
    /\ InitSync
    /\ snap = NoSnap
    /\ InitQueue
    /\ InitBoot
    /\ InitUtil

\* the primary commits one more mutation for the user; a sync observes the
\* primary only through its export, so appends are taken between syncs and
\* right before an export is served
PrimaryAppend(w) ==
    /\ primClock[w] < MaxClock
    /\ \A p \in Procs : proc[p].pc \in {"idle", "export"}
    /\ primClock' = [primClock EXCEPT ![w] = @ + 1]
    /\ UNCHANGED <<lock, db, failCount, proc, syncs, snap, queueVars, bootVars, utilVars>>

\* ------------------------------------------------------------ redis lock
getLock(w) == lock[w] # NoOwner

setLock(lk, w, p) == [lk EXCEPT ![w] = p]

removeLock(lk, w) == [lk EXCEPT ![w] = NoOwner]

\* a lock left behind by an invocation that is over expires with its TTL
ExpireLock(w) ==
    /\ lock[w] # NoOwner
    /\ w \notin proc[lock[w]].held
    /\ lock' = removeLock(lock, w)
    /\ UNCHANGED <<primClock, db, failCount, proc, syncs, snap, queueVars, bootVars, utilVars>>

\* ------------------------------------------------------------ processSync
StartSyncOf(p, forces, jobWallets, maxSyncs) ==
    /\ proc[p].pc = "idle"
    /\ syncs < maxSyncs
    /\ \E ws \in jobWallets, f \in forces :
          proc' = [proc EXCEPT ![p] =
                      [IdleProc EXCEPT !.pc = "getLock", !.wallets = ws,
                                       !.force = f, !.i = 1]]
    /\ syncs' = syncs + 1
    /\ UNCHANGED <<primClock, lock, db, failCount, snap, queueVars, bootVars, utilVars>>

StartSync(p, forces) == StartSyncOf(p, forces, JobWallets, MaxSyncs)

\* const lockHeld = await redisLock.getLock(redisKey); if (lockHeld) return errorObj
GetLock(p) ==
    /\ proc[p].pc = "getLock"
    /\ LET w == proc[p].wallets[proc[p].i] IN
          proc' = [proc EXCEPT ![p].redisKey = w,
                               ![p].pc = IF getLock(w) THEN "done" ELSE "setLock",
                               ![p].err = IF getLock(w) THEN "inProgress" ELSE "none"]
    /\ UNCHANGED <<primClock, lock, db, failCount, syncs, snap, queueVars, bootVars, utilVars>>

\* await redisLock.setLock(redisKey)
SetLock(p) ==
    /\ proc[p].pc = "setLock"
    /\ LET w == proc[p].wallets[proc[p].i] IN
          /\ lock' = setLock(lock, w, p)
          /\ proc' = [proc EXCEPT ![p].held = @ \cup {w},
                                  ![p].i = @ + 1,
                                  ![p].pc = IF proc[p].i < Len(proc[p].wallets)
                                            THEN "getLock" ELSE "baseline"]
    /\ UNCHANGED <<primClock, db, failCount, syncs, snap, queueVars, bootVars, utilVars>>

localClockOf(d, w) ==
    IF d[w].users = {} THEN -1 ELSE (CHOOSE r \in d[w].users : TRUE).clock

BaselineForceKeepsClock(p) ==
    /\ proc[p].pc = "baseline"
    /\ LET w == proc[p].wallets[1] IN
          /\ db' = IF proc[p].force THEN [db EXCEPT ![w] = EmptyRows] ELSE db
          /\ snap' = IF snap.on /\ proc[p].force
                     THEN [snap EXCEPT !.wiped = (db[w] # EmptyRows)] ELSE snap
          /\ proc' = [proc EXCEPT ![p].localMax = localClockOf(db, w),
                                  ![p].kmin = localClockOf(db, w) + 1,
                                  ![p].pc = "export"]
    /\ UNCHANGED <<primClock, lock, failCount, syncs, queueVars, bootVars, utilVars>>

\* forceResync: delete the first wallet's rows; else read the first wallet's clock
Baseline(p) ==
    /\ proc[p].pc = "baseline"
    /\ LET w == proc[p].wallets[1] IN
          IF proc[p].force
          THEN /\ db' = [db EXCEPT ![w] = EmptyRows]
               /\ snap' = IF snap.on THEN [snap EXCEPT !.wiped = (db[w] # EmptyRows)]
                          ELSE snap
               /\ proc' = [proc EXCEPT ![p].localMax = -1, ![p].kmin = 0,
                                       ![p].pc = "export"]
          ELSE /\ db' = db
               /\ snap' = snap
               /\ proc' = [proc EXCEPT ![p].localMax = localClockOf(db, w),
                                       ![p].kmin = localClockOf(db, w) + 1,
                                       ![p].pc = "export"]
    /\ UNCHANGED <<primClock, lock, failCount, syncs, queueVars, bootVars, utilVars>>

\* --------------------------------------------------------------- export
\* what the primary may put in the payload for one user
ExportShapes == {"honest", "gap", "emptyHigher", "regress"}

ExportCap(w, k) == Min(primClock[w], k + ExportWindow)

ShapesFor(w, k) ==
    {"honest"}
    \cup (IF k + 1 <= ExportCap(w, k) THEN {"gap"} ELSE {})
    \cup (IF k <= ExportCap(w, k) THEN {"emptyHigher"} ELSE {})
    \cup (IF k >= 1 THEN {"regress"} ELSE {})

\* slice(user, clock_min): the user record with the capped clock and the
\* clock records of [clock_min, min(user.clock, clock_min + export_window)]
ExportUser(w, k, shape) ==
    [wallet |-> w,
     shape |-> shape,
     pclock |-> primClock[w],
     clock |-> IF shape = "regress" THEN k - 2 ELSE ExportCap(w, k),
     recs |-> CASE shape = "honest" -> SeqFromTo(k, ExportCap(w, k))
                [] shape = "gap" -> SeqFromTo(k + 1, ExportCap(w, k))
                [] OTHER -> <<>>]

FilesOf(recs) ==
    LET fs == SelectSeq(recs, LAMBDA c : SourceTable(c) = "File")
    IN  [n \in 1..Len(fs) |-> PrimaryFile(fs[n])]

RowsOf(recs, table) ==
    {PrimaryRow(c) : c \in {x \in Range(recs) : SourceTable(x) = table}}

Reverse(s) == [n \in 1..Len(s) |-> s[Len(s) + 1 - n]]

FetchExportFromZero(p, shapes) ==
    /\ proc[p].pc = "export"
    /\ \E ord \in {proc[p].wallets, Reverse(proc[p].wallets)} :
       \E sh \in [1..Len(ord) -> shapes] :
          /\ \A n \in 1..Len(ord) : sh[n] \in ShapesFor(ord[n], 0)
          /\ proc' = [proc EXCEPT
                        ![p].resp = [n \in 1..Len(ord) |->
                                        ExportUser(ord[n], 0, sh[n])],
                        ![p].u = 1,
                        ![p].pc = "user"]
    /\ UNCHANGED <<primClock, lock, db, failCount, syncs, snap, queueVars, bootVars, utilVars>>

\* const resp = await axios({ url: '/export', params: exportQueryParams })
FetchExport(p, shapes) ==
    /\ proc[p].pc = "export"
    /\ \E ord \in {proc[p].wallets, Reverse(proc[p].wallets)} :
       \E sh \in [1..Len(ord) -> shapes] :
          /\ \A n \in 1..Len(ord) : sh[n] \in ShapesFor(ord[n], proc[p].kmin)
          /\ proc' = [proc EXCEPT
                        ![p].resp = [n \in 1..Len(ord) |->
                                        ExportUser(ord[n], proc[p].kmin, sh[n])],
                        ![p].u = 1,
                        ![p].pc = "user"]
    /\ UNCHANGED <<primClock, lock, db, failCount, syncs, snap, queueVars, bootVars, utilVars>>

\* a fetched CNodeUser without the walletPublicKey property
NoWallet == "missing"

\* an export with a CNodeUser that lacks walletPublicKey or was not requested
\* at some place among the requested users
InsertAt(s, n, e) == SubSeq(s, 1, n - 1) \o <<e>> \o SubSeq(s, n, Len(s))

FetchMalformedExport(p) ==
    /\ proc[p].pc = "export"
    /\ \E ord \in {proc[p].wallets, Reverse(proc[p].wallets)} :
       \E n \in 1..(Len(ord) + 1) :
       \E w \in Wallets \ Range(ord) : \E named \in BOOLEAN :
          LET good == [m \in 1..Len(ord) |-> ExportUser(ord[m], proc[p].kmin, "honest")]
              bad == [ExportUser(w, proc[p].kmin, "honest") EXCEPT
                         !.wallet = IF named THEN w ELSE NoWallet]
          IN  proc' = [proc EXCEPT ![p].resp = InsertAt(good, n, bad),
                                   ![p].u = 1,
                                   ![p].pc = "user"]
    /\ UNCHANGED <<primClock, lock, db, failCount, syncs, snap, queueVars, bootVars, utilVars>>

\* resp.status !== 200, or the body lacks cnodeUsers / ipfsIDObj.addresses
ExportFails(p) ==
    /\ proc[p].pc = "export"
    /\ proc' = [proc EXCEPT ![p].pc = "catch", ![p].err = "exportInvalid"]
    /\ UNCHANGED <<primClock, lock, db, failCount, syncs, snap, queueVars, bootVars, utilVars>>

\* leave the body of the for loop over the fetched users
AfterUser(pr) ==
    IF pr.u < Len(pr.resp)
    THEN [pr EXCEPT !.u = @ + 1, !.pc = "user"]
    ELSE [pr EXCEPT !.pc = "finally", !.i = 1]

\* the clock comparison of one fetched user against localMaxClockVal
ClockCheck(fetchedClock, fetchedRecs, localMaxClockVal) ==
    IF fetchedClock < localMaxClockVal THEN "regression"
    ELSE IF fetchedClock = localMaxClockVal THEN "upToDate"
    ELSE IF /\ localMaxClockVal # -1
            /\ Len(fetchedRecs) > 0
            /\ fetchedRecs[1] # localMaxClockVal + 1 THEN "nonContiguous"
    ELSE "sync"

WalletCheckAcceptsAny(fetchedWallet, walletPublicKeys) ==
    IF fetchedWallet = NoWallet THEN "malformed" ELSE "ok"

\* hasOwnProperty('walletPublicKey'), then walletPublicKeys.includes(...)
WalletCheck(fetchedWallet, walletPublicKeys) ==
    IF fetchedWallet = NoWallet THEN "malformed"
    ELSE IF fetchedWallet \notin Range(walletPublicKeys) THEN "notRequested"
    ELSE "ok"

UserCheck(p) ==
    /\ proc[p].pc = "user"
    /\ LET fu == proc[p].resp[proc[p].u]
           wres == WalletCheck(fu.wallet, proc[p].wallets)
           res == IF wres # "ok" THEN wres
                  ELSE ClockCheck(fu.clock, fu.recs, proc[p].localMax)
           own == IF fu.wallet = NoWallet THEN -1 ELSE localClockOf(db, fu.wallet)
           seen == [proc[p] EXCEPT
                      !.regress = IF fu.clock < own THEN @ \cup {fu.wallet} ELSE @,
                      !.gap = IF own >= 0 /\ Len(fu.recs) > 0 /\ fu.recs[1] # own + 1
                              THEN @ \cup {fu.wallet} ELSE @]
       IN  proc' = [proc EXCEPT ![p] =
                      CASE res = "upToDate" -> AfterUser(seen)
                        [] res = "sync" -> [seen EXCEPT !.pc = "txUser"]
                        [] OTHER -> [seen EXCEPT !.pc = "catch", !.err = res]]
    /\ UNCHANGED <<primClock, lock, db, failCount, syncs, snap, queueVars, bootVars, utilVars>>

\* ------------------------------------------------- per-user transaction
CurUser(pr) == pr.resp[pr.u]

trackFiles(fu) == SelectSeq(FilesOf(fu.recs), LAMBDA f : f.type \in TrackTypes)

nonTrackFiles(fu) == SelectSeq(FilesOf(fu.recs), LAMBDA f : f.type \in NonTrackTypes)

\* where the sync goes once the slices of one partition are done
AfterTrackFiles(fu) == IF Len(nonTrackFiles(fu)) > 0 THEN "nonTrackFiles" ELSE "gate"

AfterUpsert(fu) == IF Len(trackFiles(fu)) > 0 THEN "trackFiles" ELSE AfterTrackFiles(fu)

TxUpsertUserExportUUID(p) ==
    /\ proc[p].pc = "txUser"
    /\ LET fu == CurUser(proc[p])
           existing == db[fu.wallet].users
           uuid == IF existing = {} THEN "local" ELSE "primary"
       IN  proc' = [proc EXCEPT
                      ![p].tx = [EmptyRows EXCEPT
                                    !.users = {[clock |-> fu.clock, uuid |-> uuid]}],
                      ![p].created = (existing = {}),
                      ![p].j = 0, ![p].failed = {}, ![p].okIds = {}, ![p].failIds = {},
                      ![p].pc = AfterUpsert(fu)]
    /\ UNCHANGED <<primClock, lock, db, failCount, syncs, snap, queueVars, bootVars, utilVars>>

\* open the transaction; update the CNodeUser row if it exists, else create it
TxUpsertUser(p) ==
    /\ proc[p].pc = "txUser"
    /\ LET fu == CurUser(proc[p])
           existing == db[fu.wallet].users
           uuid == IF existing = {} THEN "local"
                   ELSE (CHOOSE r \in existing : TRUE).uuid
       IN  proc' = [proc EXCEPT
                      ![p].tx = [EmptyRows EXCEPT
                                    !.users = {[clock |-> fu.clock, uuid |-> uuid]}],
                      ![p].created = (existing = {}),
                      ![p].j = 0, ![p].failed = {}, ![p].okIds = {}, ![p].failIds = {},
                      ![p].pc = AfterUpsert(fu)]
    /\ UNCHANGED <<primClock, lock, db, failCount, syncs, snap, queueVars, bootVars, utilVars>>

cnodeUserUUID(pr) == (CHOOSE r \in pr.tx.users : TRUE).uuid

\* one slice of track files: await Promise.all(slice.map(saveFileForMultihashToFS))
FetchTrackSlice(p) ==
    /\ proc[p].pc = "trackFiles"
    /\ LET fu == CurUser(proc[p])
           slice == SubSeqFrom(trackFiles(fu), proc[p].j + 1, FileSaveMaxConcurrency)
           ids == {f.id : f \in Range(slice)}
           last == proc[p].j + FileSaveMaxConcurrency >= Len(trackFiles(fu))
       IN  \E ok \in SUBSET ids :
              proc' = [proc EXCEPT
                         ![p].okIds = @ \cup ok,
                         ![p].failIds = @ \cup (ids \ ok),
                         ![p].failed = @ \cup {f.multihash : f \in
                                                 {g \in Range(slice) : g.id \notin ok}},
                         ![p].j = IF last THEN 0 ELSE @ + FileSaveMaxConcurrency,
                         ![p].pc = IF last THEN AfterTrackFiles(fu) ELSE "trackFiles"]
    /\ UNCHANGED <<primClock, lock, db, failCount, syncs, snap, queueVars, bootVars, utilVars>>

\* one slice of non-track files; directories are not fetched
FetchNonTrackSlice(p) ==
    /\ proc[p].pc = "nonTrackFiles"
    /\ LET fu == CurUser(proc[p])
           slice == SubSeqFrom(nonTrackFiles(fu), proc[p].j + 1, FileSaveMaxConcurrency)
           tried == {f \in Range(slice) : f.type # "dir"}
           ids == {f.id : f \in tried}
           last == proc[p].j + FileSaveMaxConcurrency >= Len(nonTrackFiles(fu))
       IN  \E ok \in SUBSET ids :
              proc' = [proc EXCEPT
                         ![p].okIds = @ \cup ok,
                         ![p].failIds = @ \cup (ids \ ok),
                         ![p].failed = @ \cup {f.multihash : f \in
                                                 {g \in tried : g.id \notin ok}},
                         ![p].j = IF last THEN 0 ELSE @ + FileSaveMaxConcurrency,
                         ![p].pc = IF last THEN "gate" ELSE "nonTrackFiles"]
    /\ UNCHANGED <<primClock, lock, db, failCount, syncs, snap, queueVars, bootVars, utilVars>>

\* UserSyncFailureCountManager
incrementFailureCount(fc, w) == [fc EXCEPT ![w] = @ + 1]

resetFailureCountKeeps(fc, w) == fc

resetFailureCount(fc, w) == [fc EXCEPT ![w] = 0]

GateOffByOne(p) ==
    /\ proc[p].pc = "gate"
    /\ LET w == CurUser(proc[p]).wallet
           inc == incrementFailureCount(failCount, w)
       IN  IF proc[p].failed # {}
           THEN IF inc[w] <= SyncRequestMaxUserFailureCountBeforeSkip
                THEN /\ failCount' = inc
                     /\ proc' = [proc EXCEPT ![p].pc = "rollback",
                                             ![p].err = "contentFetchFailed"]
                ELSE /\ failCount' = resetFailureCount(inc, w)
                     /\ proc' = [proc EXCEPT ![p].pc = "txClockRecords"]
           ELSE /\ failCount' = resetFailureCount(failCount, w)
                /\ proc' = [proc EXCEPT ![p].pc = "txClockRecords"]
    /\ UNCHANGED <<primClock, lock, db, syncs, snap, queueVars, bootVars, utilVars>>

\* reject the sync while the user's failure count is below the threshold,
\* else go on and reset the count
Gate(p) ==
    /\ proc[p].pc = "gate"
    /\ LET w == CurUser(proc[p]).wallet
           inc == incrementFailureCount(failCount, w)
       IN  IF proc[p].failed # {}
           THEN IF inc[w] < SyncRequestMaxUserFailureCountBeforeSkip
                THEN /\ failCount' = inc
                     /\ proc' = [proc EXCEPT ![p].pc = "rollback",
                                             ![p].err = "contentFetchFailed"]
                ELSE /\ failCount' = resetFailureCount(inc, w)
                     /\ proc' = [proc EXCEPT ![p].pc = "txClockRecords"]
           ELSE /\ failCount' = resetFailureCount(failCount, w)
                /\ proc' = [proc EXCEPT ![p].pc = "txClockRecords"]
    /\ UNCHANGED <<primClock, lock, db, syncs, snap, queueVars, bootVars, utilVars>>

\* a row with the primary key of a stored row cannot be inserted
PKViolation(stored, rows) == \E r \in stored, n \in rows : r.id = n.id

FileRowNoSkip(f, pr) ==
    [f EXCEPT !.uuid = cnodeUserUUID(pr),
              !.fetch = IF f.id \in pr.okIds THEN "ok"
                        ELSE IF f.id \in pr.failIds THEN "fail" ELSE "none"]

\* the file row written for an exported file
FileRow(f, pr) ==
    [f EXCEPT !.skipped = IF f.multihash \in pr.failed THEN TRUE ELSE f.skipped,
              !.uuid = cnodeUserUUID(pr),
              !.fetch = IF f.id \in pr.okIds THEN "ok"
                        ELSE IF f.id \in pr.failIds THEN "fail" ELSE "none"]

TxRowsNoRecs(pr, table) ==
    LET fu == CurUser(pr) IN
    CASE table = "recs" -> {}
      [] table = "nonTrackFiles" -> {FileRow(f, pr) : f \in Range(nonTrackFiles(fu))}
      [] table = "tracks" ->
            {[r EXCEPT !.uuid = cnodeUserUUID(pr)] : r \in RowsOf(fu.recs, "Track")}
      [] table = "trackFiles" -> {FileRow(f, pr) : f \in Range(trackFiles(fu))}
      [] table = "ausers" ->
            {[r EXCEPT !.uuid = cnodeUserUUID(pr)] : r \in RowsOf(fu.recs, "AudiusUser")}

\* the rows one bulkCreate of the transaction inserts
TxRows(pr, table) ==
    LET fu == CurUser(pr) IN
    CASE table = "recs" -> {[id |-> c, uuid |-> cnodeUserUUID(pr)] : c \in Range(fu.recs)}
      [] table = "nonTrackFiles" -> {FileRow(f, pr) : f \in Range(nonTrackFiles(fu))}
      [] table = "tracks" ->
            {[r EXCEPT !.uuid = cnodeUserUUID(pr)] : r \in RowsOf(fu.recs, "Track")}
      [] table = "trackFiles" -> {FileRow(f, pr) : f \in Range(trackFiles(fu))}
      [] table = "ausers" ->
            {[r EXCEPT !.uuid = cnodeUserUUID(pr)] : r \in RowsOf(fu.recs, "AudiusUser")}

\* one bulkCreate inside the transaction: stage the rows or throw
TxInsert(p, at, table, field, next) ==
    /\ proc[p].pc = at
    /\ LET w == CurUser(proc[p]).wallet
           rows == TxRows(proc[p], table)
       IN  IF PKViolation(db[w][field] \cup proc[p].tx[field], rows)
           THEN proc' = [proc EXCEPT ![p].pc = "rollback", ![p].err = "dbError"]
           ELSE proc' = [proc EXCEPT ![p].tx[field] = @ \cup rows, ![p].pc = next]
    /\ UNCHANGED <<primClock, lock, db, failCount, syncs, snap, queueVars, bootVars, utilVars>>

TxClockRecords(p) == TxInsert(p, "txClockRecords", "recs", "recs", "txNonTrackFiles")

TxNonTrackFiles(p) == TxInsert(p, "txNonTrackFiles", "nonTrackFiles", "files", "txTracks")

TxTracks(p) == TxInsert(p, "txTracks", "tracks", "tracks", "txTrackFiles")

TxTrackFiles(p) == TxInsert(p, "txTrackFiles", "trackFiles", "files", "txAudiusUsers")

TxAudiusUsers(p) == TxInsert(p, "txAudiusUsers", "ausers", "ausers", "commit")

TxPcs == {"txClockRecords", "txNonTrackFiles", "txTracks", "txTrackFiles",
          "txAudiusUsers", "commit"}

\* a database call of the transaction throws
TxFail(p) ==
    /\ proc[p].pc \in TxPcs \cup {"txUser"}
    /\ proc' = [proc EXCEPT ![p].pc = "rollback", ![p].err = "dbError"]
    /\ UNCHANGED <<primClock, lock, db, failCount, syncs, snap, queueVars, bootVars, utilVars>>

ApplyTxKeepUser(rows, tx) ==
    [users |-> IF rows.users = {} THEN tx.users ELSE rows.users,
     recs |-> rows.recs \cup tx.recs,
     files |-> rows.files \cup tx.files,
     tracks |-> rows.tracks \cup tx.tracks,
     ausers |-> rows.ausers \cup tx.ausers]

\* the visible rows of a user after the transaction's rows are applied
ApplyTx(rows, tx) ==
    [users |-> tx.users,
     recs |-> rows.recs \cup tx.recs,
     files |-> rows.files \cup tx.files,
     tracks |-> rows.tracks \cup tx.tracks,
     ausers |-> rows.ausers \cup tx.ausers]

\* a concurrent transaction committed rows this one conflicts with
CommitConflict(rows, pr) ==
    \/ pr.created /\ rows.users # {}
    \/ PKViolation(rows.recs, pr.tx.recs)
    \/ PKViolation(rows.files, pr.tx.files)
    \/ PKViolation(rows.tracks, pr.tx.tracks)
    \/ PKViolation(rows.ausers, pr.tx.ausers)

\* await transaction.commit()
Commit(p) ==
    /\ proc[p].pc = "commit"
    /\ LET w == CurUser(proc[p]).wallet IN
          IF CommitConflict(db[w], proc[p])
          THEN /\ db' = db
               /\ snap' = snap
               /\ proc' = [proc EXCEPT ![p].pc = "rollback", ![p].err = "dbError"]
          ELSE /\ db' = [db EXCEPT ![w] = ApplyTx(db[w], proc[p].tx)]
               /\ snap' = IF snap.on /\ proc[p].force /\ w = proc[p].wallets[1]
                          THEN [snap EXCEPT !.wallet = w,
                                            !.pclock = CurUser(proc[p]).pclock,
                                            !.rows = ApplyTx(db[w], proc[p].tx),
                                            !.runs = IF /\ snap.wallet = w
                                                        /\ snap.pclock = CurUser(proc[p]).pclock
                                                     THEN @ + 1 ELSE 1]
                          ELSE snap
               /\ proc' = [proc EXCEPT ![p].pc = "postCommit", ![p].tx = EmptyRows,
                                       ![p].committed = @ \cup {w}]
    /\ UNCHANGED <<primClock, lock, failCount, syncs, queueVars, bootVars, utilVars>>

\* await redisLock.removeLock(redisKey); recordSyncSuccess(fetchedWalletPublicKey)
PostCommit(p) ==
    /\ proc[p].pc = "postCommit"
    /\ lock' = removeLock(lock, proc[p].redisKey)
    /\ proc' = [proc EXCEPT ![p] =
                  AfterUser([proc[p] EXCEPT
                               !.hist = @ \cup {<<CurUser(proc[p]).wallet, "success">>}])]
    /\ UNCHANGED <<primClock, db, failCount, syncs, snap, queueVars, bootVars, utilVars>>

RollbackKeepsRows(p) ==
    /\ proc[p].pc = "rollback"
    /\ lock' = removeLock(lock, proc[p].redisKey)
    /\ db' = [db EXCEPT ![CurUser(proc[p]).wallet] = ApplyTx(@, proc[p].tx)]
    /\ proc' = [proc EXCEPT ![p].tx = EmptyRows,
                            ![p].rolled = @ \cup {CurUser(proc[p]).wallet},
                            ![p].pc = "catch"]
    /\ UNCHANGED <<primClock, failCount, syncs, snap, queueVars, bootVars, utilVars>>

\* catch: await transaction.rollback(); removeLock(redisKey); throw
Rollback(p) ==
    /\ proc[p].pc = "rollback"
    /\ lock' = removeLock(lock, proc[p].redisKey)
    /\ proc' = [proc EXCEPT ![p].tx = EmptyRows,
                            ![p].rolled = @ \cup {CurUser(proc[p]).wallet},
                            ![p].pc = "catch"]
    /\ UNCHANGED <<primClock, db, failCount, syncs, snap, queueVars, bootVars, utilVars>>

\* outer catch: recordSyncFail for every wallet of the job
Catch(p) ==
    /\ proc[p].pc = "catch"
    /\ proc' = [proc EXCEPT
                  ![p].hist = @ \cup {<<w, "fail">> : w \in Range(proc[p].wallets)},
                  ![p].pc = "finally", ![p].i = 1]
    /\ UNCHANGED <<primClock, lock, db, failCount, syncs, snap, queueVars, bootVars, utilVars>>

\* finally: removeLock for the next wallet of the job
Finally(p) ==
    /\ proc[p].pc = "finally"
    /\ lock' = removeLock(lock, proc[p].wallets[proc[p].i])
    /\ proc' = [proc EXCEPT ![p].i = @ + 1,
                            ![p].pc = IF proc[p].i < Len(proc[p].wallets)
                                      THEN "finally" ELSE "done"]
    /\ UNCHANGED <<primClock, db, failCount, syncs, snap, queueVars, bootVars, utilVars>>

\* return errorObj
Return(p) ==
    /\ proc[p].pc = "done"
    /\ proc' = [proc EXCEPT ![p] = IdleProc]
    /\ UNCHANGED <<primClock, lock, db, failCount, syncs, snap, queueVars, bootVars, utilVars>>

\* one sync at a time: every export the primary may return, every failure
SeqProcs == {"p1"}

Next ==
    \/ \E w \in SyncedWallets : PrimaryAppend(w)
    \/ \E p \in SeqProcs : StartSync(p, BOOLEAN)
    \/ \E p \in SeqProcs : GetLock(p)
    \/ \E p \in SeqProcs : SetLock(p)
    \/ \E p \in SeqProcs : Baseline(p)
    \/ \E p \in SeqProcs : FetchExport(p, ExportShapes)
    \/ \E p \in SeqProcs : ExportFails(p)
    \/ \E p \in SeqProcs : UserCheck(p)
    \/ \E p \in SeqProcs : TxUpsertUser(p)
    \/ \E p \in SeqProcs : FetchTrackSlice(p)
    \/ \E p \in SeqProcs : FetchNonTrackSlice(p)
    \/ \E p \in SeqProcs : Gate(p)
    \/ \E p \in SeqProcs : TxClockRecords(p)
    \/ \E p \in SeqProcs : TxNonTrackFiles(p)
    \/ \E p \in SeqProcs : TxTracks(p)
    \/ \E p \in SeqProcs : TxTrackFiles(p)
    \/ \E p \in SeqProcs : TxAudiusUsers(p)
    \/ \E p \in SeqProcs : TxFail(p)
    \/ \E p \in SeqProcs : Commit(p)
    \/ \E p \in SeqProcs : PostCommit(p)
    \/ \E p \in SeqProcs : Rollback(p)
    \/ \E p \in SeqProcs : Catch(p)
    \/ \E p \in SeqProcs : Finally(p)
    \/ \E p \in SeqProcs : Return(p)

Spec == Init /\ [][Next]_vars

\* one sync at a time against a primary that answers every export correctly
NextHonest ==
    \/ \E w \in SyncedWallets : PrimaryAppend(w)
    \/ \E p \in SeqProcs : StartSync(p, BOOLEAN)
    \/ \E p \in SeqProcs : GetLock(p)
    \/ \E p \in SeqProcs : SetLock(p)
    \/ \E p \in SeqProcs : Baseline(p)
    \/ \E p \in SeqProcs : FetchExport(p, {"honest"})
    \/ \E p \in SeqProcs : ExportFails(p)
    \/ \E p \in SeqProcs : UserCheck(p)
    \/ \E p \in SeqProcs : TxUpsertUser(p)
    \/ \E p \in SeqProcs : FetchTrackSlice(p)
    \/ \E p \in SeqProcs : FetchNonTrackSlice(p)
    \/ \E p \in SeqProcs : Gate(p)
    \/ \E p \in SeqProcs : TxClockRecords(p)
    \/ \E p \in SeqProcs : TxNonTrackFiles(p)
    \/ \E p \in SeqProcs : TxTracks(p)
    \/ \E p \in SeqProcs : TxTrackFiles(p)
    \/ \E p \in SeqProcs : TxAudiusUsers(p)
    \/ \E p \in SeqProcs : TxFail(p)
    \/ \E p \in SeqProcs : Commit(p)
    \/ \E p \in SeqProcs : PostCommit(p)
    \/ \E p \in SeqProcs : Rollback(p)
    \/ \E p \in SeqProcs : Catch(p)
    \/ \E p \in SeqProcs : Finally(p)
    \/ \E p \in SeqProcs : Return(p)

SpecHonest == Init /\ [][NextHonest]_vars

\* the same, recording the image each committed force resync leaves
InitForce ==
    /\ InitSync
    /\ snap = [NoSnap EXCEPT !.on = TRUE]
    /\ InitQueue
    /\ InitBoot
    /\ InitUtil

SpecForce == InitForce /\ [][NextHonest]_vars

\* syncs without force_resync, one at a time, against a primary whose clocks
\* stand still and that answers every export correctly
InitIdlePrimary ==
    /\ primClock \in [Wallets -> 0..MaxClock]
    /\ lock = [w \in Wallets |-> NoOwner]
    /\ db = [w \in Wallets |-> EmptyRows]
    /\ failCount = [w \in Wallets |-> 0]
    /\ proc = [p \in Procs |-> IdleProc]
    /\ syncs = 0
    /\ snap = NoSnap
    /\ InitQueue
    /\ InitBoot
    /\ InitUtil

NextShared ==
    \/ \E p \in SeqProcs : StartSyncOf(p, {FALSE}, JobWalletsShared, MaxSyncs + 1)
    \/ \E p \in SeqProcs : GetLock(p)
    \/ \E p \in SeqProcs : SetLock(p)
    \/ \E p \in SeqProcs : Baseline(p)
    \/ \E p \in SeqProcs : FetchExport(p, {"honest"})
    \/ \E p \in SeqProcs : UserCheck(p)
    \/ \E p \in SeqProcs : TxUpsertUser(p)
    \/ \E p \in SeqProcs : FetchTrackSlice(p)
    \/ \E p \in SeqProcs : FetchNonTrackSlice(p)
    \/ \E p \in SeqProcs : Gate(p)
    \/ \E p \in SeqProcs : TxClockRecords(p)
    \/ \E p \in SeqProcs : TxNonTrackFiles(p)
    \/ \E p \in SeqProcs : TxTracks(p)
    \/ \E p \in SeqProcs : TxTrackFiles(p)
    \/ \E p \in SeqProcs : TxAudiusUsers(p)
    \/ \E p \in SeqProcs : Commit(p)
    \/ \E p \in SeqProcs : PostCommit(p)
    \/ \E p \in SeqProcs : Rollback(p)
    \/ \E p \in SeqProcs : Catch(p)
    \/ \E p \in SeqProcs : Finally(p)
    \/ \E p \in SeqProcs : Return(p)

SpecShared == InitIdlePrimary /\ [][NextShared]_vars

\* the same with syncs that keep being issued for every job and file fetches
\* that all succeed; the event loop runs every pending continuation, the lock's
\* TTL runs out, and Snapback keeps issuing each job
JobWalletsIssued == JobWalletsShared \cup {<<"w2">>}

\* processSync(walletPublicKeys = ws, forceResync = false), any number of times
IssueSync(p, ws) ==
    /\ ws \in JobWalletsIssued
    /\ proc[p].pc = "idle"
    /\ proc' = [proc EXCEPT ![p] =
                  [IdleProc EXCEPT !.pc = "getLock", !.wallets = ws,
                                   !.force = FALSE, !.i = 1]]
    /\ UNCHANGED <<primClock, lock, db, failCount, syncs, snap, queueVars, bootVars, utilVars>>

FetchTrackSliceAllOk(p) == FetchTrackSlice(p) /\ proc'[p].failIds = {}

FetchNonTrackSliceAllOk(p) == FetchNonTrackSlice(p) /\ proc'[p].failIds = {}

SyncStep(p) ==
    \/ GetLock(p)
    \/ SetLock(p)
    \/ Baseline(p)
    \/ FetchExport(p, {"honest"})
    \/ UserCheck(p)
    \/ TxUpsertUser(p)
    \/ FetchTrackSliceAllOk(p)
    \/ FetchNonTrackSliceAllOk(p)
    \/ Gate(p)
    \/ TxClockRecords(p)
    \/ TxNonTrackFiles(p)
    \/ TxTracks(p)
    \/ TxTrackFiles(p)
    \/ TxAudiusUsers(p)
    \/ Commit(p)
    \/ PostCommit(p)
    \/ Rollback(p)
    \/ Catch(p)
    \/ Finally(p)
    \/ Return(p)

NextConverge ==
    \/ \E p \in SeqProcs : \E ws \in JobWalletsIssued : IssueSync(p, ws)
    \/ \E p \in SeqProcs : GetLock(p)
    \/ \E p \in SeqProcs : SetLock(p)
    \/ \E p \in SeqProcs : Baseline(p)
    \/ \E p \in SeqProcs : FetchExport(p, {"honest"})
    \/ \E p \in SeqProcs : UserCheck(p)
    \/ \E p \in SeqProcs : TxUpsertUser(p)
    \/ \E p \in SeqProcs : FetchTrackSliceAllOk(p)
    \/ \E p \in SeqProcs : FetchNonTrackSliceAllOk(p)
    \/ \E p \in SeqProcs : Gate(p)
    \/ \E p \in SeqProcs : TxClockRecords(p)
    \/ \E p \in SeqProcs : TxNonTrackFiles(p)
    \/ \E p \in SeqProcs : TxTracks(p)
    \/ \E p \in SeqProcs : TxTrackFiles(p)
    \/ \E p \in SeqProcs : TxAudiusUsers(p)
    \/ \E p \in SeqProcs : Commit(p)
    \/ \E p \in SeqProcs : PostCommit(p)
    \/ \E p \in SeqProcs : Rollback(p)
    \/ \E p \in SeqProcs : Catch(p)
    \/ \E p \in SeqProcs : Finally(p)
    \/ \E p \in SeqProcs : Return(p)

FairConverge ==
    /\ \A p \in SeqProcs : WF_vars(SyncStep(p))
    /\ \A p \in SeqProcs : \A ws \in JobWalletsIssued : SF_vars(IssueSync(p, ws))

SpecConverge == InitIdlePrimary /\ [][NextConverge]_vars /\ FairConverge

\* one sync at a time against a primary whose export may be refused or carry a
\* CNodeUser that lacks its wallet or was not requested
NextMalformed ==
    \/ \E w \in SyncedWallets : PrimaryAppend(w)
    \/ \E p \in SeqProcs : StartSync(p, BOOLEAN)
    \/ \E p \in SeqProcs : GetLock(p)
    \/ \E p \in SeqProcs : SetLock(p)
    \/ \E p \in SeqProcs : Baseline(p)
    \/ \E p \in SeqProcs : FetchExport(p, {"honest"})
    \/ \E p \in SeqProcs : FetchMalformedExport(p)
    \/ \E p \in SeqProcs : ExportFails(p)
    \/ \E p \in SeqProcs : UserCheck(p)
    \/ \E p \in SeqProcs : TxUpsertUser(p)
    \/ \E p \in SeqProcs : FetchTrackSlice(p)
    \/ \E p \in SeqProcs : FetchNonTrackSlice(p)
    \/ \E p \in SeqProcs : Gate(p)
    \/ \E p \in SeqProcs : TxClockRecords(p)
    \/ \E p \in SeqProcs : TxNonTrackFiles(p)
    \/ \E p \in SeqProcs : TxTracks(p)
    \/ \E p \in SeqProcs : TxTrackFiles(p)
    \/ \E p \in SeqProcs : TxAudiusUsers(p)
    \/ \E p \in SeqProcs : Commit(p)
    \/ \E p \in SeqProcs : PostCommit(p)
    \/ \E p \in SeqProcs : Rollback(p)
    \/ \E p \in SeqProcs : Catch(p)
    \/ \E p \in SeqProcs : Finally(p)
    \/ \E p \in SeqProcs : Return(p)

SpecMalformed == Init /\ [][NextMalformed]_vars

\* concurrent syncs against an idle primary that answers every export correctly
NextConc ==
    \/ \E w \in Wallets : ExpireLock(w)
    \/ \E p \in Procs : StartSync(p, {FALSE})
    \/ \E p \in Procs : GetLock(p)
    \/ \E p \in Procs : SetLock(p)
    \/ \E p \in Procs : Baseline(p)
    \/ \E p \in Procs : FetchExport(p, {"honest"})
    \/ \E p \in Procs : UserCheck(p)
    \/ \E p \in Procs : TxUpsertUser(p)
    \/ \E p \in Procs : FetchNonTrackSlice(p)
    \/ \E p \in Procs : Gate(p)
    \/ \E p \in Procs : TxClockRecords(p)
    \/ \E p \in Procs : TxNonTrackFiles(p)
    \/ \E p \in Procs : TxTracks(p)
    \/ \E p \in Procs : TxTrackFiles(p)
    \/ \E p \in Procs : TxAudiusUsers(p)
    \/ \E p \in Procs : Commit(p)
    \/ \E p \in Procs : PostCommit(p)
    \/ \E p \in Procs : Rollback(p)
    \/ \E p \in Procs : Catch(p)
    \/ \E p \in Procs : Finally(p)
    \/ \E p \in Procs : Return(p)

SpecConc == Init /\ [][NextConc]_vars

\* ------------------------------------------------ async job queue: jobs
\* getFn(task): the processing fn of the task, null for any other name
getFn(task) ==
    CASE task = "trackContentUpload" -> "trackContentUpload"
      [] task = "transcodeAndSegment" -> "transcodeAndSegment"
      [] task = "processTranscodeAndSegments" -> "processTranscodeAndSegments"
      [] OTHER -> "null"

\* FileProcessingQueue: the task type and the fn of the processor registered
\* under the job name, if one is registered
FileProcessor(task) ==
    CASE task = "trackContentUpload" ->
            [taskType |-> "trackContentUpload", func |-> "trackContentUpload"]
      [] task = "transcodeAndSegment" ->
            [taskType |-> "trackContentUpload", func |-> "trackContentUpload"]
      [] OTHER -> [taskType |-> "none", func |-> "none"]

\* e.toString() of the errors by their message
ErrorToString(message) ==
    CASE message = "handlerError" -> "Error: handlerError"
      [] message = "func is not a function" -> "TypeError: func is not a function"
      [] message = "cannot destructure undefined" ->
            "TypeError: cannot destructure undefined"
      [] OTHER -> "none"

NewJob(cls, task, nested, id) ==
    [cls |-> cls, task |-> task, nested |-> nested, requestID |-> id, pc |-> "waiting",
     taskType |-> "none", func |-> "none", outcome |-> "none", resp |-> "none",
     dones |-> 0, doneErr |-> "none", doneResponse |-> "none", inQueue |-> TRUE]

JobIds == 1..Len(jobs)

KeyOf(jb) == constructProcessKey(jb.taskType, jb.requestID)

\* redisClient.set(redisKey, JSON.stringify(state), 'EX', EXPIRATION)
redisSet(st, key, state, resp) ==
    [st EXCEPT ![key] = [status |-> state, resp |-> resp, ex |-> EXPIRATION]]

\* addTask: the job data are the params, which carry logContext and, in the
\* FileProcessingQueue, may or may not carry a trackContentUploadParams field;
\* every request has its own requestID
addTask(cls, task, nested) ==
    /\ Len(jobs) < MaxJobs
    /\ jobs' = Append(jobs, NewJob(cls, task, nested, Len(jobs) + 1))
    /\ UNCHANGED <<status, syncVars, bootVars, utilVars>>

\* the queue hands the job to the process callback registered for it
Process(j) ==
    /\ j \in JobIds
    /\ jobs[j].pc = "waiting"
    /\ LET jb == jobs[j] IN
       jobs' = [jobs EXCEPT ![j] =
                  IF jb.cls = "AsyncProcessingQueue"
                  THEN [jb EXCEPT !.pc = "monitor", !.taskType = jb.task,
                                  !.func = getFn(jb.task)]
                  ELSE IF FileProcessor(jb.task).func = "none"
                  THEN [jb EXCEPT !.pc = "noProcessor", !.inQueue = FALSE]
                  ELSE [jb EXCEPT !.pc = "monitor",
                                  !.taskType = FileProcessor(jb.task).taskType,
                                  !.func = FileProcessor(jb.task).func]]
    /\ UNCHANGED <<status, syncVars, bootVars, utilVars>>

\* the params monitorProgress destructures: job.data, or in the
\* FileProcessingQueue job.data.trackContentUploadParams
HasParams(jb) == jb.cls = "AsyncProcessingQueue" \/ jb.nested

\* monitorProgress up to the call of func
MonitorStart(j) ==
    /\ j \in JobIds
    /\ jobs[j].pc = "monitor"
    /\ LET jb == jobs[j] IN
       IF HasParams(jb)
       THEN /\ status' = redisSet(status, KeyOf(jb), "IN_PROGRESS", "none")
            /\ jobs' = [jobs EXCEPT ![j].pc = "handler"]
       ELSE /\ status' = status
            /\ jobs' = [jobs EXCEPT ![j].pc = "callback", ![j].outcome = "threw",
                                    ![j].resp = "cannot destructure undefined"]
    /\ UNCHANGED <<syncVars, bootVars, utilVars>>

\* response = await func({ logContext }, req)
HandlerRuns(j) ==
    /\ j \in JobIds
    /\ jobs[j].pc = "handler"
    /\ LET jb == jobs[j] IN
       IF jb.func = "null"
       THEN jobs' = [jobs EXCEPT ![j].pc = "settle", ![j].outcome = "threw",
                                 ![j].resp = "func is not a function"]
       ELSE \/ jobs' = [jobs EXCEPT ![j].pc = "settle", ![j].outcome = "returned",
                                    ![j].resp = jb.func]
            \/ jobs' = [jobs EXCEPT ![j].pc = "settle", ![j].outcome = "threw",
                                    ![j].resp = "handlerError"]
    /\ UNCHANGED <<status, syncVars, bootVars, utilVars>>

WriteTerminalOnlyOnReturn(j) ==
    /\ j \in JobIds
    /\ jobs[j].pc = "settle"
    /\ LET jb == jobs[j] IN
       /\ status' = IF jb.outcome = "returned"
                    THEN redisSet(status, KeyOf(jb), "DONE", jb.resp)
                    ELSE status
       /\ jobs' = [jobs EXCEPT ![j].pc = "callback"]
    /\ UNCHANGED <<syncVars, bootVars, utilVars>>

\* monitorProgress after func settled: the DONE or FAILED write, then return
\* or rethrow
WriteTerminal(j) ==
    /\ j \in JobIds
    /\ jobs[j].pc = "settle"
    /\ LET jb == jobs[j] IN
       /\ status' = IF jb.outcome = "returned"
                    THEN redisSet(status, KeyOf(jb), "DONE", jb.resp)
                    ELSE redisSet(status, KeyOf(jb), "FAILED", jb.resp)
       /\ jobs' = [jobs EXCEPT ![j].pc = "callback"]
    /\ UNCHANGED <<syncVars, bootVars, utilVars>>

CallDoneClearsStatus(j) ==
    /\ j \in JobIds
    /\ jobs[j].pc = "callback"
    /\ LET jb == jobs[j] IN
       jobs' = [jobs EXCEPT ![j].pc = IF jb.outcome = "returned"
                                      THEN "completed" ELSE "failed",
                            ![j].dones = @ + 1, ![j].inQueue = FALSE]
    /\ status' = [status EXCEPT ![KeyOf(jobs[j])] = NoStatus]
    /\ UNCHANGED <<syncVars, bootVars, utilVars>>

\* the process callback after monitorProgress settled: done(null, { response }),
\* or the catch block, which reads logContext for its log line and calls
\* done(e.toString()); the finished job is removed from the queue
CallDone(j) ==
    /\ j \in JobIds
    /\ jobs[j].pc = "callback"
    /\ LET jb == jobs[j] IN
       jobs' = [jobs EXCEPT ![j] =
                  IF jb.outcome = "returned"
                  THEN [jb EXCEPT !.pc = "completed", !.dones = @ + 1,
                                  !.doneErr = "null", !.doneResponse = jb.resp,
                                  !.inQueue = FALSE]
                  ELSE IF ~HasParams(jb)
                  THEN [jb EXCEPT !.pc = "escaped"]
                  ELSE [jb EXCEPT !.pc = "failed", !.dones = @ + 1,
                                  !.doneErr = ErrorToString(jb.resp),
                                  !.inQueue = FALSE]]
    /\ UNCHANGED <<status, syncVars, bootVars, utilVars>>

\* the 24 hours of a status record are over; they outlast a running handler
ExpireStatus(key) ==
    /\ status[key] # NoStatus
    /\ \A j \in JobIds : jobs[j].pc \in {"handler", "settle"} => KeyOf(jobs[j]) # key
    /\ status' = [status EXCEPT ![key] = NoStatus]
    /\ UNCHANGED <<jobs, syncVars, bootVars, utilVars>>

NextQueue ==
    \/ \E cls \in QueueClasses, task \in TaskNames :
          \E nested \in IF cls = "FileProcessingQueue" THEN BOOLEAN ELSE {FALSE} :
             addTask(cls, task, nested)
    \/ \E j \in RequestIDs : Process(j)
    \/ \E j \in RequestIDs : MonitorStart(j)
    \/ \E j \in RequestIDs : HandlerRuns(j)
    \/ \E j \in RequestIDs : WriteTerminal(j)
    \/ \E j \in RequestIDs : CallDone(j)
    \/ \E key \in ProcessKeys : ExpireStatus(key)

SpecQueue == Init /\ [][NextQueue]_vars

\* ------------------------------------------------ bootstrap: L1 identity
\* the operator registers the node's endpoint on L1, or takes it off again
RegisterOnL1(id) ==
    /\ boot.chain = 0
    /\ boot' = [boot EXCEPT !.chain = id]
    /\ UNCHANGED <<syncVars, queueVars, utilVars>>

DeregisterOnL1 ==
    /\ boot.chain # 0
    /\ boot' = [boot EXCEPT !.chain = 0]
    /\ UNCHANGED <<syncVars, queueVars, utilVars>>

\* initServicesThatRequireServer: await this._recoverNodeL1Identity()
RecoverStart ==
    /\ boot.pc = "init"
    /\ boot' = [boot EXCEPT !.pc = "lookup", !.attempt = 0]
    /\ UNCHANGED <<syncVars, queueVars, utilVars>>

GetServiceProviderIdAcceptsZero ==
    /\ boot.pc = "lookup"
    /\ boot' = [boot EXCEPT !.attempt = Min(@ + 1, MaxAttempts),
                            !.waitedMs = 0,
                            !.spID = boot.chain,
                            !.pc = "recovered"]
    /\ UNCHANGED <<syncVars, queueVars, utilVars>>

\* one attempt whose getServiceProviderIdFromEndpoint returns: a non-zero spID
\* is stored and ends the loop, 0 leads to the wait
GetServiceProviderIdReturns ==
    /\ boot.pc = "lookup"
    /\ boot' = IF boot.chain # 0
               THEN [boot EXCEPT !.attempt = Min(@ + 1, MaxAttempts),
                                 !.waitedMs = 0,
                                 !.spID = boot.chain,
                                 !.pc = "recovered"]
               ELSE [boot EXCEPT !.attempt = Min(@ + 1, MaxAttempts),
                                 !.waitedMs = 0,
                                 !.seen = @ \cup {"zero"},
                                 !.pc = "wait"]
    /\ UNCHANGED <<syncVars, queueVars, utilVars>>

\* one attempt whose getServiceProviderIdFromEndpoint throws: the error is
\* logged and swallowed
GetServiceProviderIdThrows ==
    /\ boot.pc = "lookup"
    /\ boot' = [boot EXCEPT !.attempt = Min(@ + 1, MaxAttempts),
                            !.waitedMs = 0,
                            !.seen = @ \cup {"throw"},
                            !.pc = "wait"]
    /\ UNCHANGED <<syncVars, queueVars, utilVars>>

\* await utils.timeout(retryTimeoutMs, false), then the next iteration
RetryTimeout ==
    /\ boot.pc = "wait"
    /\ boot' = [boot EXCEPT !.waitedMs = retryTimeoutMs, !.pc = "lookup"]
    /\ UNCHANGED <<syncVars, queueVars, utilVars>>

\* ----------------------------------- bootstrap: services behind identity
\* _initSnapbackSM: this.snapbackSM = new SnapbackSM(...), then the init loop
InitSnapbackStartBeforeIdentity ==
    /\ boot.pc = "init"
    /\ boot' = [boot EXCEPT !.pc = "snapbackInit", !.attempt = 0, !.waitedMs = 0,
                            !.svc.snapbackSM = "constructed"]
    /\ UNCHANGED <<syncVars, queueVars, utilVars>>

InitSnapbackStart ==
    /\ boot.pc = "recovered"
    /\ boot' = [boot EXCEPT !.pc = "snapbackInit", !.attempt = 0, !.waitedMs = 0,
                            !.svc.snapbackSM = "constructed"]
    /\ UNCHANGED <<syncVars, queueVars, utilVars>>

\* await this.snapbackSM.init() returns; then this.syncQueue = new SyncQueue(...)
\* and _registerNodeOnL2URSM begins, reading devMode from the node's config
SnapbackInitReturns ==
    /\ boot.pc = "snapbackInit"
    /\ \E devMode \in BOOLEAN :
       boot' = [boot EXCEPT !.pc = "ursmClient",
                            !.attempt = 0, !.waitedMs = 0,
                            !.devMode = devMode,
                            !.svc.snapbackSM = "initialized",
                            !.svc.syncQueue = TRUE]
    /\ UNCHANGED <<syncVars, queueVars, utilVars>>

\* snapbackSM.init() throws: the error is swallowed
SnapbackInitThrows ==
    /\ boot.pc = "snapbackInit"
    /\ boot' = [boot EXCEPT !.pc = "snapbackWait", !.attempt = Min(@ + 1, MaxAttempts),
                            !.waitedMs = 0]
    /\ UNCHANGED <<syncVars, queueVars, utilVars>>

SnapbackRetryTimeout ==
    /\ boot.pc = "snapbackWait"
    /\ boot' = [boot EXCEPT !.pc = "snapbackInit", !.waitedMs = SnapbackRetryTimeoutMs]
    /\ UNCHANGED <<syncVars, queueVars, utilVars>>

\* the URSM contract gets deployed
DeployURSM ==
    /\ ~boot.ursmDeployed
    /\ boot' = [boot EXCEPT !.ursmDeployed = TRUE]
    /\ UNCHANGED <<syncVars, queueVars, utilVars>>

InitURSMClientIgnoresClient ==
    /\ boot.pc = "ursmClient"
    /\ boot' = [boot EXCEPT !.pc = "ursmRegister", !.attempt = 0, !.waitedMs = 0,
                            !.svc.ursmClient = boot.ursmDeployed,
                            !.svc.ursmManager = TRUE]
    /\ UNCHANGED <<syncVars, queueVars, utilVars>>

\* initUserReplicaSetManagerClient returns: with the client set the loop ends
\* and the URSMRegistrationManager is constructed, else the wait
InitURSMClientReturns ==
    /\ boot.pc = "ursmClient"
    /\ boot' = IF boot.ursmDeployed
               THEN [boot EXCEPT !.pc = "ursmRegister", !.attempt = 0, !.waitedMs = 0,
                                 !.svc.ursmClient = TRUE,
                                 !.svc.ursmManager = TRUE]
               ELSE [boot EXCEPT !.pc = "ursmClientWait",
                                 !.attempt = Min(@ + 1, MaxAttempts), !.waitedMs = 0,
                                 !.seen = @ \cup {"noClient"}]
    /\ UNCHANGED <<syncVars, queueVars, utilVars>>

InitURSMClientThrows ==
    /\ boot.pc = "ursmClient"
    /\ boot' = [boot EXCEPT !.pc = "ursmClientWait",
                            !.attempt = Min(@ + 1, MaxAttempts), !.waitedMs = 0,
                            !.seen = @ \cup {"noClient"}]
    /\ UNCHANGED <<syncVars, queueVars, utilVars>>

URSMClientRetryTimeout ==
    /\ boot.pc = "ursmClientWait"
    /\ boot' = [boot EXCEPT !.pc = "ursmClient",
                            !.waitedMs = URSMDeployRetryTimeoutMs(boot.devMode)]
    /\ UNCHANGED <<syncVars, queueVars, utilVars>>

\* await this.URSMRegistrationManager.run() returns: _registerNodeOnL2URSM
\* returns and the SkippedCIDsRetryQueue is constructed
URSMRunReturns ==
    /\ boot.pc = "ursmRegister"
    /\ boot' = [boot EXCEPT !.pc = "skippedInit",
                            !.attempt = Min(@ + 1, MaxAttempts),
                            !.svc.registered = TRUE,
                            !.svc.skippedCIDsRetryQueue = TRUE]
    /\ UNCHANGED <<syncVars, queueVars, utilVars>>

\* await this.skippedCIDsRetryQueue.init() returns
SkippedCIDsRetryQueueInitReturns ==
    /\ boot.pc = "skippedInit"
    /\ boot' = [boot EXCEPT !.pc = "initialized", !.svc.initialized = TRUE]
    /\ UNCHANGED <<syncVars, queueVars, utilVars>>

URSMRunThrows ==
    /\ boot.pc = "ursmRegister"
    /\ boot' = [boot EXCEPT !.pc = "ursmRegisterWait",
                            !.attempt = Min(@ + 1, MaxAttempts), !.waitedMs = 0,
                            !.seen = @ \cup {"runThrew"}]
    /\ UNCHANGED <<syncVars, queueVars, utilVars>>

URSMRegisterRetryGivesUp ==
    /\ boot.pc = "ursmRegisterWait"
    /\ boot.attempt < MaxAttempts
    /\ boot' = [boot EXCEPT !.pc = "ursmRegister",
                            !.waitedMs = URSMRegisterRetryTimeoutMs]
    /\ UNCHANGED <<syncVars, queueVars, utilVars>>

URSMRegisterRetryTimeout ==
    /\ boot.pc = "ursmRegisterWait"
    /\ boot' = [boot EXCEPT !.pc = "ursmRegister",
                            !.waitedMs = URSMRegisterRetryTimeoutMs]
    /\ UNCHANGED <<syncVars, queueVars, utilVars>>

BootPcs ==
    {"init", "lookup", "wait", "recovered", "snapbackInit", "snapbackWait",
     "ursmClient", "ursmClientWait", "ursmRegister", "ursmRegisterWait", "skippedInit",
     "initialized"}

NextBoot ==
    \/ \E id \in 1..MaxSpID : RegisterOnL1(id)
    \/ DeregisterOnL1
    \/ RecoverStart
    \/ GetServiceProviderIdReturns
    \/ GetServiceProviderIdThrows
    \/ RetryTimeout
    \/ InitSnapbackStart
    \/ SnapbackInitReturns
    \/ SnapbackInitThrows
    \/ SnapbackRetryTimeout
    \/ DeployURSM
    \/ InitURSMClientReturns
    \/ InitURSMClientThrows
    \/ URSMClientRetryTimeout
    \/ URSMRunReturns
    \/ URSMRunThrows
    \/ URSMRegisterRetryTimeout
    \/ SkippedCIDsRetryQueueInitReturns

SpecBoot == Init /\ [][NextBoot]_vars

\* the steps of initServicesThatRequireServer itself: each is the continuation
\* of an awaited promise or of a timer, which the event loop runs once it is due
BootStep ==
    \/ RecoverStart
    \/ GetServiceProviderIdReturns
    \/ GetServiceProviderIdThrows
    \/ RetryTimeout
    \/ InitSnapbackStart
    \/ SnapbackInitReturns
    \/ SnapbackInitThrows
    \/ SnapbackRetryTimeout
    \/ InitURSMClientReturns
    \/ InitURSMClientThrows
    \/ URSMClientRetryTimeout
    \/ URSMRunReturns
    \/ URSMRunThrows
    \/ URSMRegisterRetryTimeout
    \/ SkippedCIDsRetryQueueInitReturns

SpecBootFair == Init /\ [][NextBoot]_vars /\ WF_vars(BootStep)

\* ------------------------------------- utils.js: the transcode hand-off
\* JavaScript values passed as spID and as libs
Null == [t |-> "null"]

Undefined == [t |-> "undefined"]

\* the number v + tenths / 10
Num(v, tenths) == [t |-> "number", v |-> v, tenths |-> tenths]

SpIDValues ==
    {Null, Undefined, [t |-> "string", v |-> 1]}
        \cup {Num(v, tenths) : v \in 0..MaxSpID, tenths \in {0, 5}}

LibsValues == {Null, Undefined, [t |-> "object"], [t |-> "boolean", v |-> FALSE]}

NumberIsInteger(x) == x.t = "number" /\ x.tenths = 0

currentNodeShouldHandleTranscodeEither(transcodingQueueCanAcceptMoreJobs, spID, libs) ==
    IF transcodingQueueCanAcceptMoreJobs THEN TRUE
    ELSE ~(NumberIsInteger(spID) \/ (libs # Null /\ libs # Undefined))

currentNodeShouldHandleTranscode(transcodingQueueCanAcceptMoreJobs, spID, libs) ==
    IF transcodingQueueCanAcceptMoreJobs THEN TRUE
    ELSE LET currentNodeSPIdIsInitialized == NumberIsInteger(spID)
             libsInstanceIsInitialized == libs # Null /\ libs # Undefined
         IN  ~(currentNodeSPIdIsInitialized /\ libsInstanceIsInitialized)

InitTranscode ==
    /\ InitSync
    /\ snap = NoSnap
    /\ InitQueue
    /\ InitBoot
    /\ net = NoCall
    /\ InitSnapback
    /\ InitMore
    /\ \E canAccept \in BOOLEAN, spID \in SpIDValues, libs \in LibsValues :
          transcode = [pc |-> "called",
                       transcodingQueueCanAcceptMoreJobs |-> canAccept,
                       spID |-> spID, libs |-> libs]

CallCurrentNodeShouldHandleTranscode ==
    /\ transcode.pc = "called"
    /\ transcode' =
          [pc |-> "returned",
           transcodingQueueCanAcceptMoreJobs |-> transcode.transcodingQueueCanAcceptMoreJobs,
           spID |-> transcode.spID, libs |-> transcode.libs,
           result |-> currentNodeShouldHandleTranscode(
                          transcode.transcodingQueueCanAcceptMoreJobs,
                          transcode.spID, transcode.libs)]
    /\ UNCHANGED <<syncVars, queueVars, bootVars, net, snapback, moreVars>>

NextTranscode == CallCurrentNodeShouldHandleTranscode

SpecTranscode == InitTranscode /\ [][NextTranscode]_vars

\* --------------------------------------- utils.js: findCIDInNetwork
\* content hashes, and the file at filePath: its content's hash or none
Hashes == {"h1", "h2"}

NoFile == "none"

Endpoints == {"n1", "n2"}

\* what a node answers to GET /file_lookup: the request throws, the response
\* has no data, or it streams content of some hash
Responses == {"throws", "noData"} \cup Hashes

RegisteredCNodes ==
    UNION {[1..n -> [endpoint : Endpoints, resp : Responses]] : n \in 0..MaxNodes}

\* creatorNodes.filter((c) => !excludeList.includes(c.endpoint))
creatorNodesFiltered(creatorNodes, excludeList) ==
    LET keep(c) == c.endpoint \notin excludeList
    IN  SelectSeq(creatorNodes, keep)

InitNet ==
    /\ InitSync
    /\ snap = NoSnap
    /\ InitQueue
    /\ InitBoot
    /\ transcode = NoCall
    /\ InitSnapback
    /\ InitMore
    /\ \E cid \in Hashes, file \in {NoFile} \cup Hashes, attempted \in BOOLEAN,
          creatorNodes \in RegisteredCNodes, excludeList \in SUBSET Endpoints :
          net = [pc |-> "called", cid |-> cid, file |-> file,
                 attempted |-> attempted, creatorNodes |-> creatorNodes,
                 excludeList |-> excludeList, nodes |-> <<>>, index |-> 0,
                 found |-> FALSE, result |-> "pending"]

\* getIfAttemptedStateFix: redis.sadd of filePath to today's set; a fix already
\* attempted today ends the call with no value
GetIfAttemptedStateFix ==
    /\ net.pc = "called"
    /\ net' = IF net.attempted
              THEN [net EXCEPT !.pc = "returned", !.result = "undefined"]
              ELSE [net EXCEPT !.pc = "nodes", !.attempted = TRUE]
    /\ UNCHANGED <<syncVars, queueVars, bootVars, transcode, snapback, moreVars>>

\* getAllRegisteredCNodes: an empty list ends the call with no value
GetAllRegisteredCNodes ==
    /\ net.pc = "nodes"
    /\ net' = IF Len(net.creatorNodes) = 0
              THEN [net EXCEPT !.pc = "returned", !.result = "undefined"]
              ELSE [net EXCEPT !.pc = "loop", !.index = 1,
                               !.nodes = creatorNodesFiltered(net.creatorNodes,
                                                              net.excludeList)]
    /\ UNCHANGED <<syncVars, queueVars, bootVars, transcode, snapback, moreVars>>

\* the request to the node throws: logged, next node
FileLookupThrows ==
    /\ net.pc = "loop"
    /\ net.index <= Len(net.nodes)
    /\ net.nodes[net.index].resp = "throws"
    /\ net' = [net EXCEPT !.index = @ + 1]
    /\ UNCHANGED <<syncVars, queueVars, bootVars, transcode, snapback, moreVars>>

\* the response carries no data: next node
FileLookupNoData ==
    /\ net.pc = "loop"
    /\ net.index <= Len(net.nodes)
    /\ net.nodes[net.index].resp = "noData"
    /\ net' = [net EXCEPT !.index = @ + 1]
    /\ UNCHANGED <<syncVars, queueVars, bootVars, transcode, snapback, moreVars>>

\* the response streams content: written to filePath, hashed, unlinked when the
\* hash is not cid, then found = true and break
FileLookupResponds ==
    /\ net.pc = "loop"
    /\ net.index <= Len(net.nodes)
    /\ net.nodes[net.index].resp \in Hashes
    /\ LET ipfsHashOnly == net.nodes[net.index].resp
       IN  net' = [net EXCEPT !.file = IF net.cid # ipfsHashOnly THEN NoFile
                                       ELSE ipfsHashOnly,
                              !.found = TRUE,
                              !.pc = "break"]
    /\ UNCHANGED <<syncVars, queueVars, bootVars, transcode, snapback, moreVars>>

\* return found
FindCIDInNetworkReturns ==
    /\ \/ net.pc = "break"
       \/ net.pc = "loop" /\ net.index > Len(net.nodes)
    /\ net' = [net EXCEPT !.pc = "returned", !.result = IF net.found THEN "true" ELSE "false"]
    /\ UNCHANGED <<syncVars, queueVars, bootVars, transcode, snapback, moreVars>>

NextNet ==
    \/ GetIfAttemptedStateFix
    \/ GetAllRegisteredCNodes
    \/ FileLookupThrows
    \/ FileLookupNoData
    \/ FileLookupResponds
    \/ FindCIDInNetworkReturns

SpecNet == InitNet /\ [][NextNet]_vars

\* ------------------------------------- Snapback: unhealthy secondaries
\* a content node goes down or comes back
PeerDown(x) ==
    /\ x \in snapback.up
    /\ x # Self
    /\ snapback' = [snapback EXCEPT !.up = @ \ {x}]
    /\ UNCHANGED <<syncVars, queueVars, bootVars, transcode, net, moreVars>>

PeerUp(x) ==
    /\ x \notin snapback.up
    /\ snapback' = [snapback EXCEPT !.up = @ \cup {x}]
    /\ UNCHANGED <<syncVars, queueVars, bootVars, transcode, net, moreVars>>

ReplacementCandidatesAnyPeer(i) ==
    (snapback.up \ {Self}) \ {snapback.secondaries[i]}

\* a healthy peer other than this node and the user's other secondary
ReplacementCandidates(i) ==
    (snapback.up \ {Self, snapback.secondaries[3 - i]}) \ {snapback.secondaries[i]}

\* the clock probe of secondary i answers: in_sync or behind, the run of
\* failed probes ends
ProbeAnswers(i) ==
    /\ i \in Slots
    /\ snapback.proposed[i] = NoProposal
    /\ snapback.secondaries[i] \in snapback.up
    /\ snapback' = [snapback EXCEPT !.unhealthy[i] = 0]
    /\ UNCHANGED <<syncVars, queueVars, bootVars, transcode, net, moreVars>>

\* the clock probe of secondary i fails or times out: the unhealthy counter
\* goes up, and at the threshold a reconfiguration is proposed when a
\* replacement peer exists
ProbeUnreachable(i) ==
    /\ i \in Slots
    /\ snapback.proposed[i] = NoProposal
    /\ snapback.secondaries[i] \notin snapback.up
    /\ LET n == Min(snapback.unhealthy[i] + 1, UnhealthyThreshold) IN
          IF n >= UnhealthyThreshold /\ ReplacementCandidates(i) # {}
          THEN \E new \in ReplacementCandidates(i) :
                  snapback' = [snapback EXCEPT !.unhealthy[i] = n,
                                               !.proposed[i] = new]
          ELSE snapback' = [snapback EXCEPT !.unhealthy[i] = n]
    /\ UNCHANGED <<syncVars, queueVars, bootVars, transcode, net, moreVars>>

\* the chain confirms the proposal: probes resume against the new secondary
ChainConfirms(i) ==
    /\ i \in Slots
    /\ snapback.proposed[i] # NoProposal
    /\ snapback' = [snapback EXCEPT !.secondaries[i] = snapback.proposed[i],
                                    !.unhealthy[i] = 0,
                                    !.proposed[i] = NoProposal]
    /\ UNCHANGED <<syncVars, queueVars, bootVars, transcode, net, moreVars>>

NextSnapback ==
    \/ \E x \in Peers : PeerDown(x)
    \/ \E x \in Peers : PeerUp(x)
    \/ \E i \in Slots : ProbeAnswers(i)
    \/ \E i \in Slots : ProbeUnreachable(i)
    \/ \E i \in Slots : ChainConfirms(i)

SpecSnapback == Init /\ [][NextSnapback]_vars

\* ------------------------------ the file fetches of one user, by promise
MaxFiles == 3

MaxReplicaSet == 2

myCnodeEndpoint == "n0"

\* the configured nodeSyncFileSaveMaxConcurrency
ConcurrencyValues == 1..(FileSaveMaxConcurrency + 1)

\* one track type stands for both, which the loops treat alike
FileTypes == {"track"} \cup NonTrackTypes

\* fetchedCNodeUser.files: the type of each exported file, its place standing
\* for its multihash
ExportedFiles == UNION {[1..n -> FileTypes] : n \in 0..MaxFiles}

\* what getCreatorNodeEndpoints resolves to, or that the lookup throws
ReplicaSetLookups ==
    {[threw |-> TRUE, list |-> <<>>]} \cup
    {[threw |-> FALSE, list |-> l] :
        l \in UNION {[1..n -> {myCnodeEndpoint} \cup Endpoints] : n \in 0..MaxReplicaSet}}

\* [...new Set(list)]: the first occurrence of every element, in order
Dedupe(list) ==
    LET first(n) == \A m \in 1..(n - 1) : list[m] # list[n]
        keep == {n \in 1..Len(list) : first(n)}
        F[n \in 0..Len(list)] ==
            IF n = 0 THEN <<>>
            ELSE IF n \in keep THEN Append(F[n - 1], list[n]) ELSE F[n - 1]
    IN  F[Len(list)]

userReplicaSetKeepsSelf(lookup) ==
    IF lookup.threw THEN <<>> ELSE Dedupe(lookup.list)

\* the try block of the replica set lookup: filter out this node, dedupe;
\* a lookup that throws leaves the initial []
userReplicaSet(lookup) ==
    IF lookup.threw THEN <<>>
    ELSE Dedupe(SelectSeq(lookup.list, LAMBDA url : url # myCnodeEndpoint))

\* the places of the files of the given types, in export order
FilesOfTypes(files, types) ==
    LET F[n \in 0..Len(files)] ==
            IF n = 0 THEN <<>>
            ELSE IF files[n] \in types THEN Append(F[n - 1], n) ELSE F[n - 1]
    IN  F[Len(files)]

FileSliceToEnd(list, i, conc) == Range(SubSeq(list, i + 1, Len(list)))

\* list.slice(i, i + FileSaveMaxConcurrency)
FileSlice(list, i, conc) == Range(SubSeqFrom(list, i + 1, conc))

FetchedOfSliceWithDirs(files, slice) == slice

\* the files of a non-track slice that saveFileForMultihashToFS is called for
FetchedOfSlice(files, slice) == {f \in slice : files[f] # "dir"}

baseVars == <<syncVars, queueVars, bootVars, transcode, net, snapback>>

InitBase ==
    /\ InitSync
    /\ snap = NoSnap
    /\ InitQueue
    /\ InitBoot
    /\ transcode = NoCall
    /\ net = NoCall
    /\ InitSnapback

InitFetch ==
    /\ InitBase
    /\ cnodes = NoCall
    /\ fix = NoCall
    /\ poll = NoCall
    /\ \E files \in ExportedFiles, conc \in ConcurrencyValues,
          lookup \in ReplicaSetLookups :
          fetch = [pc |-> "replicaSet", files |-> files, conc |-> conc,
                   lookup |-> lookup, peers |-> <<>>, i |-> 0,
                   awaiting |-> FALSE, inflight |-> {}, finished |-> {},
                   attempts |-> [f \in 1..Len(files) |-> 0],
                   passed |-> {}, failed |-> {}, err |-> "none"]

GetUserReplicaSet ==
    /\ fetch.pc = "replicaSet"
    /\ fetch' = [fetch EXCEPT !.peers = userReplicaSet(fetch.lookup),
                              !.pc = "trackFiles"]
    /\ UNCHANGED <<baseVars, cnodes, fix, poll>>

\* trackFilesSlice.map(...): every fetch of the slice is started
StartTrackSlice ==
    /\ fetch.pc = "trackFiles"
    /\ ~fetch.awaiting
    /\ LET list == FilesOfTypes(fetch.files, TrackTypes)
           slice == FileSlice(list, fetch.i, fetch.conc)
       IN  /\ fetch.i < Len(list)
           /\ fetch' = [fetch EXCEPT
                          !.inflight = @ \cup slice,
                          !.attempts = [f \in DOMAIN @ |->
                                          IF f \in slice THEN @[f] + 1 ELSE @[f]],
                          !.passed = @ \cup {fetch.peers},
                          !.awaiting = TRUE]
    /\ UNCHANGED <<baseVars, cnodes, fix, poll>>

\* the loop over the track slices ends
TrackFilesSaved ==
    /\ fetch.pc = "trackFiles"
    /\ ~fetch.awaiting
    /\ fetch.i >= Len(FilesOfTypes(fetch.files, TrackTypes))
    /\ fetch' = [fetch EXCEPT !.pc = "nonTrackFiles", !.i = 0]
    /\ UNCHANGED <<baseVars, cnodes, fix, poll>>

\* nonTrackFilesSlice.map(...): directories are skipped
StartNonTrackSlice ==
    /\ fetch.pc = "nonTrackFiles"
    /\ ~fetch.awaiting
    /\ LET list == FilesOfTypes(fetch.files, NonTrackTypes)
           slice == FetchedOfSlice(fetch.files, FileSlice(list, fetch.i, fetch.conc))
       IN  /\ fetch.i < Len(list)
           /\ fetch' = [fetch EXCEPT
                          !.inflight = @ \cup slice,
                          !.attempts = [f \in DOMAIN @ |->
                                          IF f \in slice THEN @[f] + 1 ELSE @[f]],
                          !.passed = IF slice = {} THEN @ ELSE @ \cup {fetch.peers},
                          !.awaiting = TRUE]
    /\ UNCHANGED <<baseVars, cnodes, fix, poll>>

\* the loop over the non-track slices ends
NonTrackFilesSaved ==
    /\ fetch.pc = "nonTrackFiles"
    /\ ~fetch.awaiting
    /\ fetch.i >= Len(FilesOfTypes(fetch.files, NonTrackTypes))
    /\ fetch' = [fetch EXCEPT !.pc = "gate"]
    /\ UNCHANGED <<baseVars, cnodes, fix, poll>>

\* saveFileForMultihashToFS resolves; a failure adds the multihash to
\* CIDsThatFailedSaveFileOp
SaveFileResolves(f, success) ==
    /\ f \in fetch.inflight
    /\ fetch' = [fetch EXCEPT
                   !.inflight = @ \ {f},
                   !.finished = @ \cup {f},
                   !.failed = IF success THEN @ ELSE @ \cup {f}]
    /\ UNCHANGED <<baseVars, cnodes, fix, poll>>

\* await Promise.all(...) resolves and the loop advances
SliceSaved ==
    /\ fetch.awaiting
    /\ fetch.inflight = {}
    /\ fetch' = [fetch EXCEPT !.i = @ + fetch.conc, !.awaiting = FALSE]
    /\ UNCHANGED <<baseVars, cnodes, fix, poll>>

NextFetch ==
    \/ GetUserReplicaSet
    \/ StartTrackSlice
    \/ TrackFilesSaved
    \/ StartNonTrackSlice
    \/ NonTrackFilesSaved
    \/ \E f \in 1..(MaxFiles + 1), success \in BOOLEAN : SaveFileResolves(f, success)
    \/ SliceSaved

SpecFetch == InitFetch /\ [][NextFetch]_vars


\* ------------------------------------------- getAllRegisteredCNodes
THIRTY_MINUTES_IN_SECONDS == 1800

creatorNodeEndpoint == "n0"

NoKey == [present |-> FALSE, text |-> [json |-> <<>>], ex |-> 0]

JSONStringify(list) == [json |-> list]

JSONParse(text) == text.json

\* what getServiceProviderList('content-node') resolves to
ServiceProviderLists ==
    UNION {[1..n -> {creatorNodeEndpoint} \cup Endpoints] : n \in 0..MaxNodes}

\* what the cache holds under all_registered_cnodes, if anything
CachedLists ==
    {NoKey} \cup
    {[present |-> TRUE, text |-> JSONStringify(l), ex |-> THIRTY_MINUTES_IN_SECONDS] :
        l \in UNION {[1..n -> Endpoints] : n \in 0..MaxNodes}}

withoutSelfKeepsAll(creatorNodes) == creatorNodes

\* creatorNodes.filter((node) => node.endpoint !== config.get('creatorNodeEndpoint'))
withoutSelf(creatorNodes) ==
    SelectSeq(creatorNodes, LAMBDA node : node # creatorNodeEndpoint)

InitCNodes ==
    /\ InitBase
    /\ fetch = NoCall
    /\ fix = NoCall
    /\ poll = NoCall
    /\ \E cache \in CachedLists, chain \in ServiceProviderLists,
          getThrows \in BOOLEAN, chainThrows \in BOOLEAN, setThrows \in BOOLEAN :
          cnodes = [pc |-> "called", cache |-> cache, cached0 |-> cache,
                    chain |-> chain, getThrows |-> getThrows,
                    chainThrows |-> chainThrows, setThrows |-> setThrows,
                    creatorNodes |-> <<>>, queried |-> FALSE, stored |-> FALSE,
                    result |-> <<>>]

\* redis.get(cacheKey) finds the list: return JSON.parse(cnodesList)
RedisGetHit ==
    /\ cnodes.pc = "called"
    /\ ~cnodes.getThrows
    /\ cnodes.cache.present
    /\ cnodes' = [cnodes EXCEPT !.result = JSONParse(cnodes.cache.text),
                                !.pc = "returned"]
    /\ UNCHANGED <<baseVars, fetch, fix, poll>>

RedisGetMiss ==
    /\ cnodes.pc = "called"
    /\ ~cnodes.getThrows
    /\ ~cnodes.cache.present
    /\ cnodes' = [cnodes EXCEPT !.pc = "chain"]
    /\ UNCHANGED <<baseVars, fetch, fix, poll>>

\* the catch: CNodes = []
RedisGetThrows ==
    /\ cnodes.pc = "called"
    /\ cnodes.getThrows
    /\ cnodes' = [cnodes EXCEPT !.result = <<>>, !.pc = "returned"]
    /\ UNCHANGED <<baseVars, fetch, fix, poll>>

GetServiceProviderListReturns ==
    /\ cnodes.pc = "chain"
    /\ ~cnodes.chainThrows
    /\ cnodes' = [cnodes EXCEPT !.queried = TRUE,
                                !.creatorNodes = withoutSelf(cnodes.chain),
                                !.pc = "set"]
    /\ UNCHANGED <<baseVars, fetch, fix, poll>>

GetServiceProviderListThrows ==
    /\ cnodes.pc = "chain"
    /\ cnodes.chainThrows
    /\ cnodes' = [cnodes EXCEPT !.queried = TRUE, !.result = <<>>, !.pc = "returned"]
    /\ UNCHANGED <<baseVars, fetch, fix, poll>>

\* redis.set(cacheKey, JSON.stringify(creatorNodes), 'EX', THIRTY_MINUTES_IN_SECONDS)
RedisSetReturns ==
    /\ cnodes.pc = "set"
    /\ ~cnodes.setThrows
    /\ cnodes' = [cnodes EXCEPT
                    !.cache = [present |-> TRUE,
                               text |-> JSONStringify(cnodes.creatorNodes),
                               ex |-> THIRTY_MINUTES_IN_SECONDS],
                    !.stored = TRUE,
                    !.result = cnodes.creatorNodes,
                    !.pc = "returned"]
    /\ UNCHANGED <<baseVars, fetch, fix, poll>>

RedisSetThrows ==
    /\ cnodes.pc = "set"
    /\ cnodes.setThrows
    /\ cnodes' = [cnodes EXCEPT !.result = <<>>, !.pc = "returned"]
    /\ UNCHANGED <<baseVars, fetch, fix, poll>>

NextCNodes ==
    \/ RedisGetHit
    \/ RedisGetMiss
    \/ RedisGetThrows
    \/ GetServiceProviderListReturns
    \/ GetServiceProviderListThrows
    \/ RedisSetReturns
    \/ RedisSetThrows

SpecCNodes == InitCNodes /\ [][NextCNodes]_vars

\* ------------------------- getIfAttemptedStateFix, by concurrent callers
\* the clock in ticks; the key of a call names the calendar day of its tick
TicksPerDay == 2

MaxTicks == 3

Days == 0..(MaxTicks \div TicksPerDay)

FilePaths == {"f1", "f2"}

Callers == {"c1", "c2"}

NoTTL == 0 - 1

\* new Date().toISOString().split('T')[0]
DayOf(now) == now \div TicksPerDay

\* redis.expire(key, 60 * 60 * 24), in ticks
ExpiryTicks == (60 * 60 * 24 * TicksPerDay) \div (24 * 60 * 60)

IdleCall == [pc |-> "idle", path |-> "f1", day |-> 0, firstTime |-> FALSE,
             wasNew |-> FALSE, attempted |-> FALSE]

attemptedStateFixNever(firstTime) == FALSE

\* return !firstTime
attemptedStateFix(firstTime) == ~firstTime

InitFix ==
    /\ InitBase
    /\ fetch = NoCall
    /\ cnodes = NoCall
    /\ poll = NoCall
    /\ fix = [now |-> 0,
              members |-> [d \in Days |-> {}],
              expireAt |-> [d \in Days |-> NoTTL],
              call |-> [c \in Callers |-> IdleCall],
              added |-> {},
              went |-> [d \in Days |-> [f \in FilePaths |-> 0]]]

\* findCIDInNetwork is called: the key is built and redis.sadd(key, filePath)
\* answers 1 when the path was not in the set
RedisSadd(c, filePath) ==
    /\ fix.call[c].pc = "idle"
    /\ LET day == DayOf(fix.now)
       IN  fix' = [fix EXCEPT
                     !.members[day] = @ \cup {filePath},
                     !.added = @ \cup {<<day, filePath>>},
                     !.call[c] = [pc |-> "expire", path |-> filePath, day |-> day,
                                  firstTime |-> filePath \notin fix.members[day],
                                  wasNew |-> <<day, filePath>> \notin fix.added,
                                  attempted |-> FALSE]]
    /\ UNCHANGED <<baseVars, fetch, cnodes, poll>>

\* redis.expire(key, 60 * 60 * 24), then return !firstTime
RedisExpire(c) ==
    /\ fix.call[c].pc = "expire"
    /\ LET day == fix.call[c].day
       IN  fix' = [fix EXCEPT
                     !.expireAt[day] = IF fix.members[day] = {} THEN @
                                       ELSE fix.now + ExpiryTicks,
                     !.call[c].attempted = attemptedStateFix(fix.call[c].firstTime),
                     !.call[c].pc = "decide"]
    /\ UNCHANGED <<baseVars, fetch, cnodes, poll>>

\* if (attemptedStateFix) return
ReturnAttempted(c) ==
    /\ fix.call[c].pc = "decide"
    /\ fix.call[c].attempted
    /\ fix' = [fix EXCEPT !.call[c] = IdleCall]
    /\ UNCHANGED <<baseVars, fetch, cnodes, poll>>

\* the call goes on to getAllRegisteredCNodes and the requests to the nodes
ContactNodes(c) ==
    /\ fix.call[c].pc = "decide"
    /\ ~fix.call[c].attempted
    /\ fix' = [fix EXCEPT
                 !.went[fix.call[c].day][fix.call[c].path] = Min(@ + 1, 2),
                 !.call[c].pc = "network"]
    /\ UNCHANGED <<baseVars, fetch, cnodes, poll>>

FindCIDEnds(c) ==
    /\ fix.call[c].pc = "network"
    /\ fix' = [fix EXCEPT !.call[c] = IdleCall]
    /\ UNCHANGED <<baseVars, fetch, cnodes, poll>>

\* time passes; redis drops the keys whose time to live is over
ClockTick ==
    /\ fix.now < MaxTicks
    /\ LET now == fix.now + 1
           over(d) == fix.expireAt[d] # NoTTL /\ fix.expireAt[d] <= now
       IN  fix' = [fix EXCEPT
                     !.now = now,
                     !.members = [d \in Days |-> IF over(d) THEN {} ELSE @[d]],
                     !.expireAt = [d \in Days |-> IF over(d) THEN NoTTL ELSE @[d]]]
    /\ UNCHANGED <<baseVars, fetch, cnodes, poll>>

NextFix ==
    \/ \E c \in Callers, filePath \in FilePaths : RedisSadd(c, filePath)
    \/ \E c \in Callers : RedisExpire(c)
    \/ \E c \in Callers : ReturnAttempted(c)
    \/ \E c \in Callers : ContactNodes(c)
    \/ \E c \in Callers : FindCIDEnds(c)
    \/ ClockTick

SpecFix == InitFix /\ [][NextFix]_vars

\* ------------------------------------------------- pollAccountBalance
MaxBalance == 2

MaxRetries == 2

\* the counters of the model stop at this many polls
MaxPolls == 4

InitPoll ==
    /\ InitBase
    /\ fetch = NoCall
    /\ cnodes = NoCall
    /\ fix = NoCall
    /\ \E targetBalance \in 0..MaxBalance, maxRetries \in 0..MaxRetries :
          poll = [pc |-> "called", targetBalance |-> targetBalance,
                  maxRetries |-> maxRetries, currentBalance |-> 0,
                  numRetries |-> 0, polls |-> 0]

\* let currentBalance = await getBalance(targetAccount); let numRetries = 0
GetBalance(balance) ==
    /\ poll.pc = "called"
    /\ poll' = [poll EXCEPT !.currentBalance = balance, !.numRetries = 0,
                            !.pc = "loop"]
    /\ UNCHANGED <<baseVars, fetch, cnodes, fix>>

\* while (currentBalance > targetBalance && numRetries < maxRetries)
PollAgain(pl) ==
    pl.currentBalance > pl.targetBalance /\ pl.numRetries < pl.maxRetries

\* the loop body: the balance is read again and numRetries--
RePoll(balance) ==
    /\ poll.pc = "loop"
    /\ PollAgain(poll)
    /\ poll' = [poll EXCEPT !.currentBalance = balance,
                            !.numRetries = IF @ - 1 < 0 - MaxPolls THEN @ ELSE @ - 1,
                            !.polls = Min(@ + 1, MaxPolls)]
    /\ UNCHANGED <<baseVars, fetch, cnodes, fix>>

PollReturns ==
    /\ poll.pc = "loop"
    /\ ~PollAgain(poll)
    /\ poll.currentBalance <= poll.targetBalance
    /\ poll' = [poll EXCEPT !.pc = "returned"]
    /\ UNCHANGED <<baseVars, fetch, cnodes, fix>>

\* throw new Error('Account ... failed to reach target balance ...')
PollThrows ==
    /\ poll.pc = "loop"
    /\ ~PollAgain(poll)
    /\ poll.currentBalance > poll.targetBalance
    /\ poll' = [poll EXCEPT !.pc = "threw"]
    /\ UNCHANGED <<baseVars, fetch, cnodes, fix>>

NextPoll ==
    \/ \E balance \in 0..MaxBalance : GetBalance(balance)
    \/ \E balance \in 0..MaxBalance : RePoll(balance)
    \/ PollReturns
    \/ PollThrows

\* the event loop runs the function on whenever it can take a step
SpecPoll == InitPoll /\ [][NextPoll]_vars /\ WF_vars(NextPoll)

TypeOK ==
    /\ primClock \in [Wallets -> 0..MaxClock]
    /\ lock \in [Wallets -> Procs \cup {NoOwner}]
    /\ failCount \in [Wallets -> 0..SyncRequestMaxUserFailureCountBeforeSkip]
    /\ syncs \in 0..(MaxSyncs + 1)

\* ------------------------------------------------------------ properties
ClocksOf(rows) == {r.id : r \in rows}

\* past lock acquisition and not yet past the last commit or rollback
LockedPcs == {"baseline", "export", "user", "txUser", "trackFiles", "nonTrackFiles",
              "gate", "rollback"} \cup TxPcs

InCriticalSection(p, w) ==
    /\ proc[p].pc \in LockedPcs
    /\ w \in Range(proc[p].wallets)

\* C1: of the concurrent processSync invocations whose jobs contain the same
\* wallet, at most one at a time is past lock acquisition and inside its
\* critical section for that wallet
C1_MutualExclusion ==
    \A w \in Wallets : \A p \in Procs : \A q \in Procs \ {p} :
        ~(InCriticalSection(p, w) /\ InCriticalSection(q, w))

\* C2: when processSync returns, on any path, no lock that this invocation
\* set is still set
C2_NoLockLeftOnReturn ==
    \A p \in Procs :
        proc[p].pc = "done" => \A w \in proc[p].held : lock[w] # p

\* C3: from the moment processSync has set a wallet's lock until its last
\* commit or rollback, that wallet's lock stays set
C3_LockHeldThroughSync ==
    \A p \in Procs :
        proc[p].pc \in LockedPcs => \A w \in proc[p].held : lock[w] # NoOwner

JustCommitted(p) == proc[p].pc = "postCommit"

C5_NonContiguousRejected ==
    \A p \in Procs :
        /\ proc[p].gap \cap proc[p].committed = {}
        /\ (proc[p].pc = "done" /\ proc[p].gap # {}) =>
              /\ proc[p].err # "none"
              /\ \A w \in proc[p].held : lock[w] # p

\* C6: for every user of the export, a fetched clock lower than that user's
\* own local clock makes processSync fail with the user's rows unchanged, and
\* the local clock compared is the clock of the same user
C6_RegressionRejectedPerUser ==
    \A p \in Procs :
        /\ proc[p].pc = "user" =>
              proc[p].localMax = localClockOf(db, CurUser(proc[p]).wallet)
        /\ proc[p].regress \cap proc[p].committed = {}
        /\ (proc[p].pc = "done" /\ proc[p].regress # {}) => proc[p].err # "none"

\* C7: for every user stored on the secondary the clock is the maximum clock
\* of its clock records and the records are the dense sequence 0..clock
C7_ClockLogDense ==
    \A w \in Wallets :
        IF db[w].users = {}
        THEN db[w].recs = {}
        ELSE ClocksOf(db[w].recs) = 0..localClockOf(db, w)

GateStep(p) == proc[p].pc = "gate" /\ proc'[p].pc # "gate"

CommitStep(p) == proc[p].pc = "commit" /\ proc'[p].pc = "postCommit"

C9_SkippedMarksMissingContent ==
    \A w \in Wallets : \A f \in db[w].files :
        /\ (f.type # "dir" /\ ~f.skipped) => f.fetch = "ok"
        /\ f.fetch = "fail" => f.skipped

\* committed syncs left a fetched file and a file whose fetch failed
C9_Witness ==
    \E w \in Wallets : \E v \in Wallets : \E f \in db[w].files : \E g \in db[v].files :
        /\ f.fetch = "ok" /\ ~f.skipped
        /\ g.fetch = "fail" /\ g.skipped

\* C10: the rows of one user's sync become visible together at the commit or
\* not at all: a failed step is followed by the rollback, an error is
\* returned, and no row of that sync is visible
C10_AtomicCommit ==
    /\ [](\A p \in Procs :
            /\ proc[p].rolled \cap proc[p].committed = {}
            /\ (proc[p].pc = "done" /\ proc[p].rolled # {}) => proc[p].err # "none"
            /\ proc[p].pc = "rollback" => proc[p].err # "none")
    /\ [][\A w \in Wallets :
            db'[w] # db[w] =>
               \E p \in Procs :
                  \/ /\ CommitStep(p)
                     /\ CurUser(proc[p]).wallet = w
                     /\ db'[w].users = proc[p].tx.users
                     /\ db'[w].recs = db[w].recs \cup proc[p].tx.recs
                     /\ db'[w].files = db[w].files \cup proc[p].tx.files
                     /\ db'[w].tracks = db[w].tracks \cup proc[p].tx.tracks
                     /\ db'[w].ausers = db[w].ausers \cup proc[p].tx.ausers
                     /\ ClocksOf(proc[p].tx.recs) = Range(CurUser(proc[p]).recs)
                  \/ /\ proc[p].pc = "baseline"
                     /\ proc[p].force
                     /\ w = proc[p].wallets[1]
                     /\ db'[w] = EmptyRows
       ]_vars

\* a transaction that had staged rows was rolled back
C10_Witness ==
    \E p \in Procs :
        /\ proc[p].pc = "catch"
        /\ proc[p].err = "dbError"
        /\ proc[p].rolled # {}
        /\ db[CurUser(proc[p]).wallet].users = {}

\* the clocks of 0..c whose mutation is of the table
ClocksOfTable(c, table) == {x \in 0..c : SourceTable(x) = table}

\* the user's rows are the primary's log of 0..c under one user row
ImageOfLog(rows, c) ==
    /\ \E r \in rows.users : rows.users = {r} /\ r.clock = c
    /\ ClocksOf(rows.recs) = 0..c
    /\ ClocksOf(rows.files) = ClocksOfTable(c, "File")
    /\ ClocksOf(rows.tracks) = ClocksOfTable(c, "Track")
    /\ ClocksOf(rows.ausers) = ClocksOfTable(c, "AudiusUser")
    /\ \A r \in rows.recs \cup rows.files \cup rows.tracks \cup rows.ausers :
          \A u \in rows.users : r.uuid = u.uuid

\* a force resync committed for the wallet whose rows it deleted
ForceCommitted(p) ==
    /\ JustCommitted(p)
    /\ proc[p].force
    /\ CurUser(proc[p]).wallet = proc[p].wallets[1]

SameImage(a, b) ==
    /\ {r.clock : r \in a.users} = {r.clock : r \in b.users}
    /\ ClocksOf(a.recs) = ClocksOf(b.recs)
    /\ {<<f.id, f.type, f.multihash>> : f \in a.files}
          = {<<f.id, f.type, f.multihash>> : f \in b.files}
    /\ ClocksOf(a.tracks) = ClocksOf(b.tracks)
    /\ ClocksOf(a.ausers) = ClocksOf(b.ausers)

\* a force resync of the wallet whose last committed force resync saw the
\* primary at the clock it has now
RepeatedForce(p) ==
    /\ proc[p].force
    /\ snap.wallet = proc[p].wallets[1]
    /\ snap.pclock = primClock[snap.wallet]

UserSyncPcs == {"txUser", "trackFiles", "nonTrackFiles", "gate", "rollback"} \cup TxPcs

\* C13: a fetched user whose clock equals that user's local clock is passed
\* over: no file is fetched, no failure is counted, no row is written and no
\* error is raised for that user
C13_UpToDateIsNoOp ==
    \A p \in Procs :
        proc[p].pc \in UserSyncPcs =>
            CurUser(proc[p]).clock # localClockOf(db, CurUser(proc[p]).wallet)

\* C14: without force_resync each user's export is requested from that user's
\* local clock + 1 (0 for a user unknown locally), and a commit inserts only
\* clock records above the user's local clock, none of them and no file
\* descriptor being stored already
C14_OnlyNewRecordsInserted ==
    /\ [](\A p \in Procs :
            (proc[p].pc = "user" /\ ~proc[p].force) =>
                proc[p].kmin = localClockOf(db, CurUser(proc[p]).wallet) + 1)
    /\ [][\A p \in Procs :
            (CommitStep(p) /\ ~proc[p].force) =>
                LET w == CurUser(proc[p]).wallet IN
                /\ \A r \in proc[p].tx.recs :
                      /\ r.id > localClockOf(db, w)
                      /\ r.id \notin ClocksOf(db[w].recs)
                /\ \A f \in proc[p].tx.files : f.id \notin ClocksOf(db[w].files)
       ]_vars

\* what the invocation recorded for the wallet in the sync history
Recorded(p, w, outcome) == <<w, outcome>> \in proc[p].hist

\* C15: an invocation records one outcome per wallet of its job: success for
\* a wallet it committed, fail for a wallet whose sync did not succeed, never
\* both for one wallet, and on return every wallet of the job has an outcome
C15_OneOutcomePerWallet ==
    \A p \in Procs :
        /\ \A w \in Wallets : ~(Recorded(p, w, "success") /\ Recorded(p, w, "fail"))
        /\ proc[p].pc = "done" =>
              \A w \in Range(proc[p].wallets) :
                 /\ Recorded(p, w, "success") \/ Recorded(p, w, "fail")
                 /\ Recorded(p, w, "success") <=> w \in proc[p].committed

StatusRecord(state, resp) == [status |-> state, resp |-> resp, ex |-> EXPIRATION]

\* the job's monitorProgress is about to call func
HandlerStarts(j) == jobs[j].pc # "handler" /\ jobs'[j].pc = "handler"

\* the job's monitorProgress returns or rethrows after func settled
MonitorSettles(j) == jobs[j].pc = "settle" /\ jobs'[j].pc = "callback"

\* func of the job settled and its monitorProgress is over
HandlerFinished(jb) ==
    /\ jb.pc \in {"callback", "completed", "failed", "escaped"}
    /\ jb.resp # "cannot destructure undefined"

\* C16: monitorProgress writes IN_PROGRESS under {task}:::{requestID} before
\* func starts; when it settles, the record under that key is DONE with the
\* response if func returned and FAILED with the error message if func threw;
\* the record is not IN_PROGRESS once func has finished, and every write
\* carries the 24-hour expiry
C16_StatusFollowsHandler ==
    /\ [](\A j \in JobIds :
            HandlerFinished(jobs[j]) => status[KeyOf(jobs[j])].status # "IN_PROGRESS")
    /\ [][/\ \A j \in JobIds :
               LET jb == jobs[j]
                   key == constructProcessKey(jb.taskType, jb.requestID)
               IN  /\ HandlerStarts(j) =>
                         status'[key] = StatusRecord("IN_PROGRESS", "none")
                   /\ jb.pc = "handler" => status[key].status = "IN_PROGRESS"
                   /\ MonitorSettles(j) =>
                         status'[key] = IF jb.outcome = "returned"
                                        THEN StatusRecord("DONE", jb.resp)
                                        ELSE StatusRecord("FAILED", jb.resp)
          /\ \A key \in ProcessKeys :
               (status'[key] # status[key] /\ status'[key] # NoStatus) =>
                   status'[key].ex = EXPIRATION
       ]_vars

\* one job settled with a thrown error recorded and another with its response
C16_Witness ==
    \E i \in JobIds : \E j \in JobIds :
        /\ jobs[i].pc = "callback" /\ jobs[i].outcome = "threw"
        /\ status[KeyOf(jobs[i])] = StatusRecord("FAILED", "handlerError")
        /\ jobs[j].pc = "callback" /\ jobs[j].outcome = "returned"
        /\ status[KeyOf(jobs[j])] = StatusRecord("DONE", jobs[j].func)

\* C17: for every job the process callback invokes done exactly once, with
\* the error if the handler threw and with the response otherwise, and no
\* exception escapes the callback, whatever the job data and the task name
C17_DoneExactlyOnce ==
    \A j \in JobIds :
        LET jb == jobs[j] IN
        /\ jb.pc # "escaped"
        /\ jb.dones <= 1
        /\ jb.pc \in {"completed", "failed"} =>
              /\ jb.dones = 1
              /\ jb.outcome = "returned" =>
                    jb.doneErr = "null" /\ jb.doneResponse = jb.resp
              /\ jb.outcome = "threw" => jb.doneErr = ErrorToString(jb.resp)

\* C18: a job of each of the three task kinds is run by the processing fn of
\* its own kind and its status is written under its own task name; no kind is
\* without a processor
C18_OwnHandlerOwnKey ==
    /\ \A j \in JobIds :
          LET jb == jobs[j] IN
          jb.task \in PROCESS_NAMES =>
              /\ jb.pc # "noProcessor"
              /\ jb.pc # "waiting" => (jb.func = jb.task /\ jb.taskType = jb.task)
    /\ \A key \in ProcessKeys :
          status[key] # NoStatus =>
              \E j \in JobIds : key = constructProcessKey(jobs[j].task, jobs[j].requestID)

\* C19: a status record that is DONE or FAILED keeps its value until it
\* expires, also when its job is removed from the queue
C19_TerminalStatusIsStable ==
    [][\A key \in ProcessKeys :
          (status[key].status \in {"DONE", "FAILED"} /\ status'[key] # status[key]) =>
              (status'[key] = NoStatus /\ jobs' = jobs)
      ]_vars

\* the jobs are off the queue and their records are still DONE and FAILED
C19_Witness ==
    \E i \in JobIds : \E j \in JobIds :
        /\ ~jobs[i].inQueue /\ jobs[i].pc = "completed"
        /\ status[KeyOf(jobs[i])].status = "DONE"
        /\ ~jobs[j].inQueue /\ jobs[j].pc = "failed"
        /\ status[KeyOf(jobs[j])].status = "FAILED"

\* C20: _recoverNodeL1Identity returns only after a lookup returned a
\* non-zero spID, which is then the spID of the node config; a lookup that
\* returns 0 or throws leads to the 5-second wait and another attempt; the
\* config's spID is never set to 0
C20_RecoverOnlyNonZeroSpID ==
    /\ [](/\ boot.pc = "recovered" => boot.spID # 0
          /\ boot.pc \in BootPcs
          /\ (boot.pc = "lookup" /\ boot.attempt >= 1) => boot.waitedMs = 5000)
    /\ [][/\ boot'.spID # boot.spID => (boot'.spID # 0 /\ boot'.spID = boot.chain)
          /\ (boot.pc = "lookup" /\ boot'.pc = "recovered") => boot.chain # 0
          /\ (boot.pc = "lookup" /\ boot'.pc # "lookup"
                /\ (boot.chain = 0 \/ "throw" \in boot'.seen \ boot.seen)) =>
                   boot'.pc = "wait"
          /\ boot.pc = "wait" => boot'.pc \in {"wait", "lookup"}
       ]_vars

\* the identity was recovered after a lookup that returned 0 and one that threw
C20_Witness ==
    /\ boot.pc = "recovered"
    /\ boot.seen = {"zero", "throw"}
    /\ boot.spID # 0

\* C21 as stated: Snapback initialization, SyncQueue construction and the start
\* of the SkippedCIDsRetryQueue happen only after the service-provider ID was
\* recovered and the node was registered on the replica-set registry.
C21_ServicesOnlyAfterRegistration ==
    (\/ boot.svc.snapbackSM # "null"
     \/ boot.svc.syncQueue
     \/ boot.svc.skippedCIDsRetryQueue) =>
       (boot.spID # 0 /\ boot.svc.registered)

\* C21 amended: Snapback initialization and SyncQueue construction happen only
\* after the service-provider ID was recovered (registration on the registry
\* comes after them); the SyncQueue is constructed only after Snapback's init
\* returned; the SkippedCIDsRetryQueue starts only after the node was registered
\* and the SyncQueue exists; the registry marks itself initialized last.
C21_ServicesOnlyAfterIdentity ==
    /\ (\/ boot.svc.snapbackSM # "null"
        \/ boot.svc.syncQueue
        \/ boot.svc.skippedCIDsRetryQueue) => boot.spID # 0
    /\ boot.svc.syncQueue => boot.svc.snapbackSM = "initialized"
    /\ boot.svc.registered => boot.svc.syncQueue
    /\ boot.svc.skippedCIDsRetryQueue => (boot.svc.registered /\ boot.svc.syncQueue)
    /\ boot.svc.initialized => boot.svc.skippedCIDsRetryQueue

C21_Witness ==
    /\ boot.svc.snapbackSM = "initialized"
    /\ boot.svc.syncQueue
    /\ ~boot.svc.registered
    /\ boot.spID # 0

\* C22: the registration manager runs only once the registry client is set; a
\* failed attempt of either phase goes to the wait and from there to another
\* attempt (10 s in dev mode / 10 min otherwise for the client, 10 s for the
\* registration); _registerNodeOnL2URSM is left only with the node registered.
C22_RegisterAfterClientWithRetries ==
    /\ [](/\ boot.pc \in {"ursmRegister", "ursmRegisterWait"} =>
                (boot.svc.ursmClient /\ boot.svc.ursmManager)
          /\ boot.svc.registered => boot.svc.ursmClient
          /\ boot.pc \in {"skippedInit", "initialized"} => boot.svc.registered
          /\ (boot.pc = "ursmClient" /\ boot.attempt >= 1) =>
                boot.waitedMs = (IF boot.devMode THEN 10000 ELSE 600000)
          /\ (boot.pc = "ursmRegister" /\ boot.attempt >= 1) =>
                boot.waitedMs = 10000)
    /\ [][/\ (boot.pc = "ursmClient" /\ boot'.pc # "ursmClient"
                /\ ~boot'.svc.ursmClient) => boot'.pc = "ursmClientWait"
          /\ (boot.pc = "ursmClient" /\ boot'.pc = "ursmRegister") =>
                boot'.svc.ursmClient
          /\ boot.pc = "ursmClientWait" =>
                boot'.pc \in {"ursmClientWait", "ursmClient"}
          /\ (boot.pc = "ursmRegister" /\ boot'.pc # "ursmRegister"
                /\ ~boot'.svc.registered) => boot'.pc = "ursmRegisterWait"
          /\ boot.pc = "ursmRegisterWait" =>
                boot'.pc \in {"ursmRegisterWait", "ursmRegister"}
          /\ (boot.pc \in {"ursmClient", "ursmClientWait", "ursmRegister",
                            "ursmRegisterWait"}
                /\ boot'.pc = "skippedInit") =>
                (boot.pc = "ursmRegister" /\ boot'.svc.registered)
         ]_vars

C22_Witness ==
    /\ boot.svc.registered
    /\ {"noClient", "runThrew"} \subseteq boot.seen
    /\ ~boot.devMode

\* C23: currentNodeShouldHandleTranscode returns true when the TranscodingQueue
\* can accept more jobs; otherwise it returns false exactly when spID is an
\* integer and libs is neither null nor undefined, and true in every other case.
C23_HandleTranscodeDecision ==
    transcode.pc = "returned" =>
       /\ transcode.transcodingQueueCanAcceptMoreJobs => transcode.result = TRUE
       /\ ~transcode.transcodingQueueCanAcceptMoreJobs =>
             /\ transcode.result = FALSE <=>
                   (/\ transcode.spID.t = "number"
                    /\ transcode.spID.tenths = 0
                    /\ transcode.libs.t \notin {"null", "undefined"})
             /\ (transcode.spID.t # "number" \/ transcode.libs.t \in {"null", "undefined"})
                   => transcode.result = TRUE

C23_Witness ==
    /\ transcode.pc = "returned"
    /\ ~transcode.transcodingQueueCanAcceptMoreJobs
    /\ transcode.spID = Num(1, 0)
    /\ transcode.libs = Null
    /\ transcode.result = TRUE

C25_ExportSliceShape ==
    \A p \in Procs : \A n \in 1..Len(proc[p].resp) :
       LET fu == proc[p].resp[n]
           k == proc[p].localMax + 1
       IN  /\ \A m \in 1..Len(fu.recs) : fu.recs[m] >= k
           /\ \A m \in 1..(Len(fu.recs) - 1) : fu.recs[m + 1] = fu.recs[m] + 1
           /\ Len(fu.recs) > 0 =>
                 /\ fu.recs[Len(fu.recs)] <= fu.pclock
                 /\ fu.recs[Len(fu.recs)] <= k + ExportWindow

C25_Witness ==
    \E p \in Procs :
       /\ proc[p].localMax = 0
       /\ Len(proc[p].resp) > 0
       /\ proc[p].resp[1].recs = <<1, 2>>

C28_StoredClockNeverDecreases ==
    [][\A w \in Wallets : localClockOf(db', w) >= localClockOf(db, w)]_vars

\* C29: with the primary's clocks standing still, every export and file fetch
\* succeeding and syncs without force_resync issued again and again, a sync that
\* ran for a user who is behind has raised the user's stored clock, no step
\* lowers a stored clock, and every user's stored clock eventually equals the
\* primary's clock and stays there.
C29_SecondaryConverges ==
    /\ [](\A p \in Procs :
            (proc[p].pc = "done" /\ proc[p].err # "inProgress") =>
               \A w \in Range(proc[p].wallets) :
                  \/ w \in proc[p].committed
                  \/ localClockOf(db, w) = primClock[w])
    /\ [][\A w \in Wallets : localClockOf(db', w) >= localClockOf(db, w)]_vars
    /\ \A w \in Wallets : <>[](localClockOf(db, w) = primClock[w])

UUIDsOf(rows) == {r.uuid : r \in rows}

RowsOfUser(rows) == rows.recs \cup rows.files \cup rows.tracks \cup rows.ausers

\* C30: a sync of a user the secondary already holds leaves the user's
\* cnodeUserUUID as it was, and every clock record, file, track and audius-user
\* row of a user carries that local cnodeUserUUID, never the export's.
C30_LocalUUIDKept ==
    /\ [](\A w \in Wallets :
            /\ \A u \in db[w].users :
                  /\ u.uuid # "primary"
                  /\ \A r \in RowsOfUser(db[w]) : r.uuid = u.uuid
            /\ \A p \in Procs : \A u \in proc[p].tx.users :
                  \A r \in RowsOfUser(proc[p].tx) : r.uuid = u.uuid /\ r.uuid # "primary")
    /\ [][\A w \in Wallets :
            (db[w].users # {} /\ db'[w].users # {}) =>
               UUIDsOf(db'[w].users) = UUIDsOf(db[w].users)]_vars

C30_Witness ==
    \E p \in Procs :
       /\ JustCommitted(p)
       /\ ~proc[p].created
       /\ ~proc[p].force
       /\ LET w == CurUser(proc[p]).wallet IN
             /\ Cardinality(db[w].recs) >= 2
             /\ db[w].files # {}
             /\ UUIDsOf(RowsOfUser(db[w])) = UUIDsOf(db[w].users)

ExportErrors == {"exportInvalid", "malformed", "notRequested"}

\* the fetched user the sync is at lacks its wallet or was not requested
AtBadUser(pr) ==
    /\ pr.u \in 1..Len(pr.resp)
    /\ WalletCheck(pr.resp[pr.u].wallet, pr.wallets) # "ok"

\* C31: when the export is refused or malformed, or the sync comes to a fetched
\* user without walletPublicKey or with a wallet that was not requested, the
\* sync ends with an error, no transaction is opened for that user and no row
\* is written for it.
C31_MalformedExportRejected ==
    /\ [](\A p \in Procs :
            /\ AtBadUser(proc[p]) =>
                  /\ proc[p].pc \in {"user", "catch", "finally", "done"}
                  /\ proc[p].tx = EmptyRows
                  /\ proc[p].pc # "user" => proc[p].err \in {"malformed", "notRequested"}
            /\ proc[p].err = "exportInvalid" =>
                  /\ proc[p].pc \in {"catch", "finally", "done"}
                  /\ proc[p].resp = <<>>
                  /\ proc[p].committed = {}
            /\ (proc[p].err \in ExportErrors /\ proc[p].pc = "done") =>
                  \A w \in Range(proc[p].wallets) : Recorded(p, w, "fail"))
    /\ [][\A p \in Procs :
            /\ proc'[p].err \in ExportErrors => db' = db
            /\ proc[p].pc # "idle" =>
                  \A w \in Wallets \ Range(proc[p].wallets) : db'[w] = db[w]]_vars

C31_Witness ==
    \E p \in Procs :
       /\ proc[p].pc = "done"
       /\ proc[p].err = "notRequested"
       /\ proc[p].u = 2
       /\ proc[p].committed # {}

\* C32: at most the configured number of file fetches is in flight; the
\* fetches of a slice start only when every fetch started before has finished;
\* a non-track file's fetch starts only when every track file has finished.
C32_FetchesInSlices ==
    /\ [](fetch.pc # "none" => Cardinality(fetch.inflight) <= fetch.conc)
    /\ [][\A f \in fetch'.inflight \ fetch.inflight :
            /\ fetch.inflight = {}
            /\ \A g \in DOMAIN fetch.attempts :
                  fetch.attempts[g] > 0 => g \in fetch.finished
            /\ fetch.files[f] \in NonTrackTypes =>
                  \A g \in DOMAIN fetch.files :
                     fetch.files[g] \in TrackTypes => g \in fetch.finished]_vars

C32_Witness ==
    /\ fetch.pc = "nonTrackFiles"
    /\ fetch.conc = 2
    /\ Cardinality(fetch.inflight) = 2
    /\ \E g \in DOMAIN fetch.files : fetch.files[g] \in TrackTypes

\* C33: once the fetch loops are done every exported file that is not a
\* directory has had exactly one fetch attempt; a directory has none, at any
\* time, and its multihash is never among the failed CIDs.
C33_OneFetchPerNonDirFile ==
    fetch.pc # "none" =>
       \A f \in DOMAIN fetch.files :
          /\ fetch.attempts[f] <= 1
          /\ fetch.files[f] = "dir" => fetch.attempts[f] = 0 /\ f \notin fetch.failed
          /\ (fetch.pc = "gate" /\ fetch.files[f] # "dir") =>
                fetch.attempts[f] = 1 /\ f \in fetch.finished

C33_Witness ==
    /\ fetch.pc = "gate"
    /\ fetch.failed # {}
    /\ \E f, g \in DOMAIN fetch.files :
          fetch.files[f] = "dir" /\ fetch.files[g] \in {"image", "metadata"}

NoDuplicates(list) == \A m, n \in 1..Len(list) : list[m] = list[n] => m = n

\* C34: the peer list handed to the file fetches holds neither this node's
\* endpoint nor an endpoint twice; when the replica set lookup throws, the
\* sync goes on to the fetches with an empty peer list.
C34_PeerListWithoutSelfOrDuplicates ==
    /\ fetch.pc \notin {"none", "replicaSet"} =>
          /\ fetch.err = "none"
          /\ fetch.lookup.threw => fetch.peers = <<>>
          /\ ~fetch.lookup.threw =>
                Range(fetch.peers) = Range(fetch.lookup.list) \ {myCnodeEndpoint}
    /\ \A peers \in (IF fetch.pc = "none" THEN {} ELSE fetch.passed) :
          /\ peers = fetch.peers
          /\ myCnodeEndpoint \notin Range(peers)
          /\ NoDuplicates(peers)

C34_Witness ==
    /\ fetch.pc = "gate"
    /\ fetch.lookup.threw
    /\ fetch.passed = {<<>>}
    /\ fetch.finished # {}

\* the counters stay in range and only the gate of a sync of w changes w's
FailureCountRangeAndOwner ==
    /\ [](\A w \in Wallets :
             failCount[w] \in 0..(SyncRequestMaxUserFailureCountBeforeSkip - 1))
    /\ [][\A w \in Wallets :
            failCount'[w] # failCount[w] =>
               \E p \in Procs :
                  /\ GateStep(p)
                  /\ CurUser(proc[p]).wallet = w
                  /\ w \in Range(proc[p].wallets)]_vars

\* C35 (as claimed): after a completed processSync every failure counter is
\* in 0 .. max - 1, the counter of a user of the sync is 0 unless one of the
\* sync's file fetches failed and ended it, and a counter is changed only by a
\* sync of its user.
C35_FailureCounterZeroWithoutFailedFetch ==
    /\ FailureCountRangeAndOwner
    /\ [](\A p \in Procs :
             (proc[p].pc = "done" /\ proc[p].err # "contentFetchFailed") =>
                \A w \in Range(proc[p].wallets) : failCount[w] = 0)

\* C35 (amended): the counter of a user is 0 after a sync that came through
\* that user's file fetches with none failed or that committed the user's
\* data; a sync that ends before the user's fetches leaves it as it was.
C35_FailureCounterZeroAfterCleanFetches ==
    /\ FailureCountRangeAndOwner
    /\ [](\A p \in Procs :
             proc[p].pc = "done" =>
                \A w \in proc[p].committed : failCount[w] = 0)
    /\ [][\A p \in Procs :
            (GateStep(p) /\ proc[p].failed = {}) =>
               failCount'[CurUser(proc[p]).wallet] = 0]_vars

\* a sync ended by a refused or malformed export left a counter at max - 1
C35_Witness ==
    \E p \in Procs : \E w \in Range(proc[p].wallets) :
       /\ proc[p].pc = "done"
       /\ proc[p].err \in ExportErrors
       /\ failCount[w] = SyncRequestMaxUserFailureCountBeforeSkip - 1

\* C36: getAllRegisteredCNodes returns the cached list and does not query the
\* chain when the cache holds the key; else it queries the chain, drops this
\* node's endpoint, stores the list with an expiry of 30 minutes and returns
\* it; when the cache or the chain throws it returns the empty list.
C36_CachedOrChainOrEmpty ==
    cnodes.pc = "returned" =>
       IF cnodes.getThrows THEN
          cnodes.result = <<>> /\ ~cnodes.queried /\ cnodes.cache = cnodes.cached0
       ELSE IF cnodes.cached0.present THEN
          /\ cnodes.result = cnodes.cached0.text.json
          /\ ~cnodes.queried
          /\ cnodes.cache = cnodes.cached0
       ELSE IF cnodes.chainThrows \/ cnodes.setThrows THEN
          cnodes.result = <<>> /\ cnodes.queried /\ cnodes.cache = cnodes.cached0
       ELSE
          /\ cnodes.queried
          /\ creatorNodeEndpoint \notin Range(cnodes.result)
          /\ cnodes.result =
                SelectSeq(cnodes.chain, LAMBDA e : e \in Endpoints)
          /\ cnodes.cache.present
          /\ cnodes.cache.text.json = cnodes.result
          /\ cnodes.cache.ex = 30 * 60

C36_Witness ==
    /\ cnodes.pc = "returned"
    /\ cnodes.stored
    /\ creatorNodeEndpoint \in Range(cnodes.chain)
    /\ Len(cnodes.result) > 0

\* C37: for a file path and a calendar day at most one call of
\* findCIDInNetwork goes on to the other nodes, whatever the interleaving of
\* concurrent calls; getIfAttemptedStateFix answers false to the first call of
\* the day for the path and true to every later one, and a call that is
\* answered true returns and does nothing else.
C37_OneFixAttemptPerDayAndPath ==
    /\ [](fix.now >= 0 =>
            /\ \A d \in Days, f \in FilePaths : fix.went[d][f] <= 1
            /\ \A c \in Callers :
                  fix.call[c].pc \in {"decide", "network"} =>
                     fix.call[c].attempted = ~fix.call[c].wasNew)
    /\ [][\A c \in Callers :
            (fix.call[c].pc = "decide" /\ fix.call[c].attempted
             /\ fix'.call[c] # fix.call[c]) =>
               /\ fix'.call[c].pc = "idle"
               /\ fix'.went = fix.went
               /\ fix'.members = fix.members]_vars

\* two calls for one path on one day: one is at the nodes, the other was told
\* that the fix was attempted
C37_Witness ==
    \E c, e \in Callers :
       /\ fix.call[c].pc = "network"
       /\ fix.call[e].pc = "decide"
       /\ fix.call[e].attempted
       /\ fix.call[e].path = fix.call[c].path
       /\ fix.call[e].day = fix.call[c].day

\* C39: pollAccountBalance ends for every sequence of balances, having read
\* the balance again at most maxRetries times; it returns once the balance is
\* at or below the target and throws when the balance is still above it after
\* maxRetries retries.
C39_PollEndsWithinMaxRetries ==
    /\ [](poll.pc # "none" => poll.polls <= poll.maxRetries)
    /\ [](poll.pc = "returned" => poll.currentBalance <= poll.targetBalance)
    /\ [](poll.pc = "threw" => poll.currentBalance > poll.targetBalance)
    /\ (poll.pc = "called" ~> poll.pc \in {"returned", "threw"})

====
